---- MODULE Spec2Model ----
(***************************************************************************)
(* Authentication, session and RBAC layer of the stocks-hunter dashboard.  *)
(* The relational store (users, roles, user_roles, role_permissions,       *)
(* sessions, audit_logs, app_scenarios) and the process-local login        *)
(* throttle map are the state; every route handler is one action.          *)
(***************************************************************************)
EXTENDS Integers, Sequences, FiniteSets, TLC

VARIABLES
    now,              \* wall clock in ms: Date.now() and the store's NOW()
    ticks,            \* number of clock advances so far (caps the clock)
    users,            \* public.users, id = index
    roles,            \* public.roles, id = index
    userRoles,        \* public.user_roles: set of [user_id, role_id, assigned_by, assigned_at]
    rolePermissions,  \* public.role_permissions: set of <<role_id, permission key>>
    sessions,         \* public.sessions, id = index
    auditLogs,        \* public.audit_logs, append only
    loginBuckets,     \* rate-limit.ts loginBuckets: key -> <<>> or <<bucket>>
    scenarios,        \* public.app_scenarios: <<>> without the table, else <<rows>>
    last,             \* the handler that ran last and the status it answered
    failedLogins,     \* history: per client, the failed logins of its current window
    guardCall,        \* the last requirePermission call: <<>> or <<[context, ...]>>
    inflight,         \* service calls in progress: call -> <<>> or <<[..., done]>>
    browser           \* a browser: the page it requests or shows, and its cookie

vars == <<now, ticks, users, roles, userRoles, rolePermissions, sessions,
          auditLogs, loginBuckets, scenarios, last, failedLogins, guardCall, inflight,
          browser>>

(***************************************************************************)
(* Bounds of the model.                                                    *)
(***************************************************************************)
MaxSessions == 2
MaxTicks == 2
MaxAudit == 1
MaxThrottleSessions == 1
MaxThrottleTicks == 3
MaxUsers == 3
MaxRoles == 5
MaxScenarios == 2
MaxLoginSessions == 3
MaxLoginTicks == 1
MaxCalls == 2
MaxAssignTicks == 2
MaxBrowseSessions == 3
MaxBrowseTicks == 2
MaxRaceSessions == 4

(***************************************************************************)
(* Program constants.                                                      *)
(***************************************************************************)
DEFAULT_SESSION_TTL_HOURS == 24
WINDOW_MS == 10 * 60 * 1000
MAX_ATTEMPTS == 8
BLOCK_MS == 10 * 60 * 1000

sessionTtlMs == DEFAULT_SESSION_TTL_HOURS * 60 * 60 * 1000

\* SQL NULL in a timestamp column
NULL == -1
\* an absent (or empty) cookie value: request.cookies.get(name)?.value is falsy
NoToken == 0

getTokenPepper == "dev-only-pepper-change-me"

(***************************************************************************)
(* Credential codec (crypto.ts).                                           *)
(***************************************************************************)
normalizeEmail_asTyped(email) == email

\* email.trim().toLowerCase() on the e-mail spellings the requests use
normalizeEmail(email) ==
    CASE email = " Admin@Example.com " -> "admin@example.com"
      [] email = "USER@example.com"    -> "user@example.com"
      [] OTHER                         -> email

\* bcrypt.hash: one way; the salt does not change what compare() accepts
hashPassword(plainPassword) == <<"bcrypt", plainPassword>>

\* bcrypt.compare
verifyPassword(plainPassword, passwordHash) ==
    passwordHash = <<"bcrypt", plainPassword>>

\* randomBytes(32): a token no session was issued before
generateSessionToken(sess) == Len(sess) + 1

\* sha256(rawToken ":" pepper)
hashSessionToken(rawToken) == <<"sha256", rawToken, getTokenPepper>>

(***************************************************************************)
(* Optional values: <<>> is null/undefined, <<v>> is the value v.          *)
(***************************************************************************)
None == <<>>
Some(v) == <<v>>

(***************************************************************************)
(* Requests.                                                               *)
(***************************************************************************)
\* request.nextUrl.host
RequestHost == "app.example"

\* new URL(originHeader).host: <<>> when the constructor throws
URLHost(originHeader) ==
    CASE originHeader = "https://app.example"      -> Some("app.example")
      [] originHeader = "http://app.example"       -> Some("app.example")
      [] originHeader = "https://app.example:8443" -> Some("app.example:8443")
      [] originHeader = "https://evil.example"     -> Some("evil.example")
      [] OTHER                                     -> None

\* the first entry of x-forwarded-for, trimmed; x-real-ip otherwise
getClientIp(request) ==
    CASE request.forwardedFor = "1.2.3.4"            -> Some("1.2.3.4")
      [] request.forwardedFor = " 1.2.3.4 , 10.0.0.1" -> Some("1.2.3.4")
      [] request.forwardedFor = "5.6.7.8"            -> Some("5.6.7.8")
      [] OTHER                                       -> request.realIp

ensureSameOrigin(request) ==
    IF request.method \in {"GET", "HEAD", "OPTIONS"} THEN None
    ELSE IF request.origin = None
    THEN Some([status |-> 403, error |-> "Invalid request origin."])
    ELSE LET host == URLHost(request.origin[1]) IN
         IF host = None \/ host[1] # RequestHost
         THEN Some([status |-> 403, error |-> "Invalid request origin."])
         ELSE None

(***************************************************************************)
(* Session store (session.ts) and revokeSessionsForUser (service.ts).      *)
(***************************************************************************)
createSession(sess, userId, t) ==
    Append(sess, [user_id    |-> userId,
                  token_hash |-> hashSessionToken(generateSessionToken(sess)),
                  expires_at |-> t + sessionTtlMs,
                  revoked_at |-> NULL])

revokeSessionByToken_again(sess, rawToken, t) ==
    [i \in DOMAIN sess |->
        IF sess[i].token_hash = hashSessionToken(rawToken)
        THEN [sess[i] EXCEPT !.revoked_at = t]
        ELSE sess[i]]

revokeSessionByToken_ofOwner(sess, rawToken, t) ==
    [i \in DOMAIN sess |->
        IF sess[i].revoked_at = NULL
           /\ \E j \in DOMAIN sess : /\ sess[j].token_hash = hashSessionToken(rawToken)
                                      /\ sess[j].user_id = sess[i].user_id
        THEN [sess[i] EXCEPT !.revoked_at = t]
        ELSE sess[i]]

revokeSessionByToken(sess, rawToken, t) ==
    [i \in DOMAIN sess |->
        IF sess[i].token_hash = hashSessionToken(rawToken) /\ sess[i].revoked_at = NULL
        THEN [sess[i] EXCEPT !.revoked_at = t]
        ELSE sess[i]]

revokeSessionById(sess, sessionId, t) ==
    [i \in DOMAIN sess |->
        IF i = sessionId /\ sess[i].revoked_at = NULL
        THEN [sess[i] EXCEPT !.revoked_at = t]
        ELSE sess[i]]

revokeSessionsForUser_everyone(sess, userId, t) ==
    [i \in DOMAIN sess |->
        IF sess[i].revoked_at = NULL
        THEN [sess[i] EXCEPT !.revoked_at = t]
        ELSE sess[i]]

revokeSessionsForUser(sess, userId, t) ==
    [i \in DOMAIN sess |->
        IF sess[i].user_id = userId /\ sess[i].revoked_at = NULL
        THEN [sess[i] EXCEPT !.revoked_at = t]
        ELSE sess[i]]

AuthQueryRows_ignoreRevoked(sessionToken, sess, usrs, t) ==
    {i \in DOMAIN sess :
        /\ sess[i].token_hash = hashSessionToken(sessionToken)
        /\ sess[i].expires_at > t
        /\ sess[i].user_id \in DOMAIN usrs
        /\ usrs[sess[i].user_id].is_active}

\* the rows of the context query: session joined to its user, filtered
AuthQueryRows(sessionToken, sess, usrs, t) ==
    {i \in DOMAIN sess :
        /\ sess[i].token_hash = hashSessionToken(sessionToken)
        /\ sess[i].revoked_at = NULL
        /\ sess[i].expires_at > t
        /\ sess[i].user_id \in DOMAIN usrs
        /\ usrs[sess[i].user_id].is_active}

\* ARRAY_AGG(DISTINCT r.name) / ARRAY_AGG(DISTINCT p.key) over the left joins
RoleNamesOf(userId, ur, rls) ==
    {rls[a.role_id].name : a \in {x \in ur : x.user_id = userId /\ x.role_id \in DOMAIN rls}}

PermissionKeysOf(userId, ur, rp) ==
    {rpRow[2] : rpRow \in {x \in rp : \E a \in ur : a.user_id = userId /\ a.role_id = x[1]}}

mapAuthContext(i, sessionToken, sess, usrs, ur, rls, rp) ==
    [user |-> [id          |-> sess[i].user_id,
               email       |-> usrs[sess[i].user_id].email,
               isActive    |-> usrs[sess[i].user_id].is_active,
               roles       |-> RoleNamesOf(sess[i].user_id, ur, rls),
               permissions |-> PermissionKeysOf(sess[i].user_id, ur, rp)],
     sessionId        |-> i,
     sessionExpiresAt |-> sess[i].expires_at,
     sessionToken     |-> sessionToken]

getAuthContextFromRequest(request, sess, usrs, ur, rls, rp, t) ==
    IF request.cookie = NoToken THEN None
    ELSE LET rows == AuthQueryRows(request.cookie, sess, usrs, t) IN
         IF rows = {} THEN None
         ELSE Some(mapAuthContext(CHOOSE i \in rows : \A o \in rows : i <= o,
                                  request.cookie, sess, usrs, ur, rls, rp))

rotateSession_noRevoke(sess, context, t) ==
    [sessions |-> createSession(sess, context.user.id, t),
     rawToken |-> generateSessionToken(sess),
     calls    |-> <<"createSession">>]

\* the result carries the store calls in the order they are awaited
rotateSession(sess, context, t) ==
    LET created == createSession(sess, context.user.id, t) IN
    [sessions |-> revokeSessionById(created, context.sessionId, t),
     rawToken |-> generateSessionToken(sess),
     calls    |-> <<"createSession", "revokeSessionById">>]

(***************************************************************************)
(* Guard layer (guard.ts).                                                 *)
(***************************************************************************)
\* String.prototype.toUpperCase on the role names in use
toUpperCase(name) ==
    CASE name = "admin"   -> "ADMIN"
      [] name = "Admin"   -> "ADMIN"
      [] name = "manager" -> "MANAGER"
      [] name = "viewer"  -> "VIEWER"
      [] name = "auditor" -> "AUDITOR"
      [] OTHER            -> name

hasRole(context, roleNames) ==
    LET roleSet == {toUpperCase(role) : role \in context.user.roles} IN
    \E role \in roleNames : toUpperCase(role) \in roleSet

hasPermission(context, permissions) ==
    \E permission \in permissions : permission \in context.user.permissions

isAdmin_roleOnly(context) == hasRole(context, {"ADMIN"})

isAdmin(context) == hasRole(context, {"ADMIN"}) \/ hasPermission(context, {"admin:all"})

requireAuth_namesTheCause(request, sess, usrs, ur, rls, rp, t) ==
    LET context == getAuthContextFromRequest(request, sess, usrs, ur, rls, rp, t) IN
    IF context = None
    THEN [context |-> None,
          error   |-> Some([status |-> 401,
                            error  |-> IF request.cookie = NoToken
                                       THEN "Authentication required."
                                       ELSE "Session expired."])]
    ELSE [context |-> context, error |-> None]

requireAuth(request, sess, usrs, ur, rls, rp, t) ==
    LET context == getAuthContextFromRequest(request, sess, usrs, ur, rls, rp, t) IN
    IF context = None
    THEN [context |-> None,
          error   |-> Some([status |-> 401, error |-> "Authentication required."])]
    ELSE [context |-> context, error |-> None]

requirePermission(context, permissions) ==
    IF isAdmin(context) THEN None
    ELSE IF hasPermission(context, permissions) THEN None
    ELSE Some([status |-> 403, error |-> "Forbidden."])

requireRole(context, roleNames) ==
    IF hasRole(context, roleNames) THEN None
    ELSE Some([status |-> 403, error |-> "Forbidden."])

(***************************************************************************)
(* Login throttle (rate-limit.ts).  A bucket map is a function from the    *)
(* throttle keys to <<>> (no entry) or <<bucket>>.                         *)
(***************************************************************************)
\* Math.ceil(ms / 1000) for ms >= 0
CeilSeconds(ms) == (ms + 999) \div 1000

getLoginThrottleState_neverBlocked(buckets, key, ts) ==
    [allowed |-> TRUE, retryAfterSeconds |-> 0, buckets |-> buckets]

getLoginThrottleState(buckets, key, ts) ==
    IF buckets[key] = None
    THEN [allowed |-> TRUE, retryAfterSeconds |-> 0, buckets |-> buckets]
    ELSE LET bucket == buckets[key][1] IN
         IF bucket.blockedUntil > ts
         THEN [allowed |-> FALSE,
               retryAfterSeconds |-> CeilSeconds(bucket.blockedUntil - ts),
               buckets |-> buckets]
         ELSE IF ts - bucket.windowStart > WINDOW_MS
         THEN [allowed |-> TRUE, retryAfterSeconds |-> 0,
               buckets |-> [buckets EXCEPT ![key] =
                              Some([count |-> 0, windowStart |-> ts, blockedUntil |-> 0])]]
         ELSE [allowed |-> TRUE, retryAfterSeconds |-> 0, buckets |-> buckets]

registerLoginFailure_blockAfterNine(buckets, key, ts) ==
    IF buckets[key] = None \/ ts - buckets[key][1].windowStart > WINDOW_MS
    THEN [buckets EXCEPT ![key] = Some([count |-> 1, windowStart |-> ts, blockedUntil |-> 0])]
    ELSE LET current == buckets[key][1]
             nextCount == current.count + 1
             blockedUntil == IF nextCount > MAX_ATTEMPTS THEN ts + BLOCK_MS ELSE 0
         IN [buckets EXCEPT ![key] = Some([count |-> nextCount,
                                           windowStart |-> current.windowStart,
                                           blockedUntil |-> blockedUntil])]

registerLoginFailure(buckets, key, ts) ==
    IF buckets[key] = None \/ ts - buckets[key][1].windowStart > WINDOW_MS
    THEN [buckets EXCEPT ![key] = Some([count |-> 1, windowStart |-> ts, blockedUntil |-> 0])]
    ELSE LET current == buckets[key][1]
             nextCount == current.count + 1
             blockedUntil == IF nextCount >= MAX_ATTEMPTS THEN ts + BLOCK_MS ELSE 0
         IN [buckets EXCEPT ![key] = Some([count |-> nextCount,
                                           windowStart |-> current.windowStart,
                                           blockedUntil |-> blockedUntil])]

registerLoginSuccess(buckets, key) == [buckets EXCEPT ![key] = None]

(***************************************************************************)
(* Audit logger (audit.ts): the insert may fail; the failure is swallowed. *)
(***************************************************************************)
writeAuditLog(log, input, insertOk) ==
    IF insertOk THEN Append(log, input) ELSE log

(***************************************************************************)
(* Payload validation (auth/validators.ts).                                *)
(***************************************************************************)
\* z.string().email(): the spellings the requests use
IsEmail(text) ==
    text \in {"admin@example.com", "user@example.com", "USER@example.com",
              "ghost@example.com", "new@example.com"}

\* password.length
PasswordLength(password) ==
    CASE password = "short"          -> 5
      [] password = "Sh0rt#pw"       -> 8
      [] password = "weakpassword"   -> 12
      [] password = "Admin#Pass123"  -> 13
      [] password = "User#Pass1234"  -> 13
      [] password = "Fresh#Pass999"  -> 13
      [] password = "Wrong#Pass000"  -> 13
      [] OTHER                       -> 0

validateStrongPassword(password) ==
    password \in {"Sh0rt#pw", "Admin#Pass123", "User#Pass1234", "Fresh#Pass999",
                  "Wrong#Pass000"}

\* a body is [json |-> FALSE] when request.json() throws, else [json |-> TRUE, ...]
loginPayloadSchema(body) ==
    /\ body.email # None /\ IsEmail(body.email[1])
    /\ body.password # None
    /\ PasswordLength(body.password[1]) >= 8
    /\ PasswordLength(body.password[1]) <= 128

updateUserPayloadSchema(body) ==
    /\ body.password = None
         \/ (PasswordLength(body.password[1]) >= 10 /\ PasswordLength(body.password[1]) <= 128)

(***************************************************************************)
(* User rows (service.ts).                                                 *)
(***************************************************************************)
findUserByEmail(usrs, email) ==
    LET found == {i \in DOMAIN usrs : usrs[i].email = email} IN
    IF found = {} THEN None ELSE Some(CHOOSE i \in found : TRUE)

updateUserLastLogin(usrs, userId, t) ==
    [i \in DOMAIN usrs |->
        IF i = userId THEN [usrs[i] EXCEPT !.last_login_at = t]
        ELSE usrs[i]]

\* updates: [fullName, isActive, passwordHash], each <<>> when undefined
updateUser(usrs, userId, updates, t) ==
    IF updates.fullName = None /\ updates.isActive = None /\ updates.passwordHash = None
    THEN usrs
    ELSE [i \in DOMAIN usrs |->
            IF i = userId
            THEN [usrs[i] EXCEPT
                    !.full_name = IF updates.fullName = None THEN @ ELSE updates.fullName[1],
                    !.is_active = IF updates.isActive = None THEN @ ELSE updates.isActive[1],
                    !.password_hash =
                        IF updates.passwordHash = None THEN @ ELSE updates.passwordHash[1]]
            ELSE usrs[i]]

(***************************************************************************)
(* Administration: payloads, service methods (service.ts) and routes.      *)
(***************************************************************************)
\* String.prototype.trim, on the spellings the requests use
trim(text) ==
    CASE text = " auditor "  -> "auditor"
      [] text = " New User " -> "New User"
      [] OTHER               -> text

\* text.length
TextLength(text) ==
    CASE text = ""           -> 0
      [] text = "x"          -> 1
      [] text = "admin"      -> 5
      [] text = "auditor"    -> 7
      [] text = " auditor "  -> 9
      [] text = "New User"   -> 8
      [] text = " New User " -> 10
      [] text = "Reviews"    -> 7
      [] OTHER               -> 0

\* z.string().uuid(): the identifiers are numbers, 0 is a malformed one
IsUuid(id) == id > 0

createUserPayloadSchema(body) ==
    /\ body.email # None /\ IsEmail(body.email[1])
    /\ body.password # None
    /\ PasswordLength(body.password[1]) >= 10
    /\ PasswordLength(body.password[1]) <= 128
    /\ body.fullName # None
    /\ TextLength(body.fullName[1]) >= 1
    /\ TextLength(body.fullName[1]) <= 180

createRolePayloadSchema(body) ==
    /\ body.name # None
    /\ TextLength(body.name[1]) >= 2
    /\ TextLength(body.name[1]) <= 80
    /\ body.description = None \/ TextLength(body.description[1]) <= 280

updateRolePayloadSchema(body) ==
    /\ body.name = None \/ (TextLength(body.name[1]) >= 2 /\ TextLength(body.name[1]) <= 80)
    /\ body.description = None \/ TextLength(body.description[1]) <= 280

assignRolePayloadSchema(body) ==
    /\ body.user_id # None /\ IsUuid(body.user_id[1])
    /\ body.role_id # None /\ IsUuid(body.role_id[1])

rolePermissionPayloadSchema(body) ==
    /\ body.role_id # None /\ IsUuid(body.role_id[1])
    /\ body.permission_ids # None
    /\ Len(body.permission_ids[1]) <= 250

\* the rows of public.permissions (types.ts)
defaultPermissions ==
    {"investments:read", "investments:write", "admin:users:read", "admin:users:manage",
     "admin:roles:read", "admin:roles:manage", "admin:permissions:read",
     "admin:audit:read", "admin:all"}

\* a service method answers ok = FALSE when the statement raises
createUser(usrs, input) ==
    IF \E i \in DOMAIN usrs : usrs[i].email = input.email
    THEN [ok |-> FALSE, code |-> "23505", users |-> usrs, id |-> None]
    ELSE [ok |-> TRUE, code |-> "",
          users |-> Append(usrs, [email |-> input.email,
                                  password_hash |-> input.passwordHash,
                                  full_name |-> input.fullName,
                                  is_active |-> input.isActive,
                                  last_login_at |-> NULL]),
          id |-> Some(Len(usrs) + 1)]

createRole(rls, input) ==
    IF \E i \in DOMAIN rls : rls[i].name = input.name
    THEN [ok |-> FALSE, code |-> "23505", roles |-> rls, id |-> None]
    ELSE [ok |-> TRUE, code |-> "",
          roles |-> Append(rls, [name |-> input.name, description |-> input.description]),
          id |-> Some(Len(rls) + 1)]

\* updates: [name, description], each <<>> when undefined
updateRole(rls, roleId, updates) ==
    IF updates.name = None /\ updates.description = None
    THEN [ok |-> TRUE, code |-> "", roles |-> rls]
    ELSE IF roleId \notin DOMAIN rls
    THEN [ok |-> TRUE, code |-> "", roles |-> rls]
    ELSE IF updates.name # None
            /\ \E i \in DOMAIN rls : i # roleId /\ rls[i].name = updates.name[1]
    THEN [ok |-> FALSE, code |-> "23505", roles |-> rls]
    ELSE [ok |-> TRUE, code |-> "",
          roles |-> [rls EXCEPT ![roleId] =
                       [name |-> IF updates.name = None THEN @.name ELSE updates.name[1],
                        description |-> IF updates.description = None THEN @.description
                                        ELSE updates.description]]]

assignRoleToUser_overwrite(ur, usrs, rls, input, t) ==
    IF input.userId \notin DOMAIN usrs \/ input.roleId \notin DOMAIN rls
    THEN [ok |-> FALSE, code |-> "23503", userRoles |-> ur]
    ELSE [ok |-> TRUE, code |-> "",
          userRoles |-> {a \in ur : a.user_id # input.userId \/ a.role_id # input.roleId}
                           \cup {[user_id |-> input.userId, role_id |-> input.roleId,
                                   assigned_by |-> input.assignedBy, assigned_at |-> t]}]

\* INSERT ... ON CONFLICT (user_id, role_id) DO NOTHING; assigned_at is NOW()
assignRoleToUser(ur, usrs, rls, input, t) ==
    IF \E a \in ur : a.user_id = input.userId /\ a.role_id = input.roleId
    THEN [ok |-> TRUE, code |-> "", userRoles |-> ur]
    ELSE IF input.userId \notin DOMAIN usrs \/ input.roleId \notin DOMAIN rls
    THEN [ok |-> FALSE, code |-> "23503", userRoles |-> ur]
    ELSE [ok |-> TRUE, code |-> "",
          userRoles |-> ur \cup {[user_id |-> input.userId, role_id |-> input.roleId,
                                  assigned_by |-> input.assignedBy, assigned_at |-> t]}]

\* the loop of setRolePermissions: one INSERT per permission, in order
RECURSIVE InsertRolePermissions(_, _, _, _)
InsertRolePermissions(rp, rls, roleId, permissionIds) ==
    IF permissionIds = <<>>
    THEN [ok |-> TRUE, code |-> "", rolePermissions |-> rp]
    ELSE IF <<roleId, Head(permissionIds)>> \in rp
    THEN InsertRolePermissions(rp, rls, roleId, Tail(permissionIds))
    ELSE IF roleId \notin DOMAIN rls \/ Head(permissionIds) \notin defaultPermissions
    THEN [ok |-> FALSE, code |-> "23503", rolePermissions |-> rp]
    ELSE InsertRolePermissions(rp \cup {<<roleId, Head(permissionIds)>>}, rls, roleId,
                               Tail(permissionIds))

setRolePermissions_additive(rp, rls, roleId, permissionIds) ==
    InsertRolePermissions(rp, rls, roleId, permissionIds)

\* permissions are named by their keys; the DELETE and the INSERTs are
\* separate statements, so a raising INSERT leaves the earlier ones done
setRolePermissions(rp, rls, roleId, permissionIds) ==
    InsertRolePermissions({x \in rp : x[1] # roleId}, rls, roleId, permissionIds)

(***************************************************************************)
(* Route handlers.  A handler's outcome is its response together with the  *)
(* state it leaves: everything not named is as the handler found it.       *)
(***************************************************************************)
Respond(status, calls) ==
    [status          |-> status,
     error           |-> None,
     retryAfter      |-> None,
     setCookie       |-> None,
     calls           |-> calls,
     users           |-> users,
     roles           |-> roles,
     userRoles       |-> userRoles,
     rolePermissions |-> rolePermissions,
     sessions        |-> sessions,
     auditLogs       |-> auditLogs,
     loginBuckets    |-> loginBuckets,
     scenarios       |-> scenarios]

AuditEntry(actorUserId, action, entityType, entityId) ==
    [actorUserId |-> actorUserId, action |-> action,
     entityType |-> entityType, entityId |-> entityId]

ThrottleKey_emailOnly(request, email) == <<"unknown", email>>

ThrottleKey(request, email) ==
    LET ipAddress == getClientIp(request) IN
    <<IF ipAddress = None THEN "unknown" ELSE ipAddress[1], email>>

\* POST /api/auth/login
POST_login(request, auditOk) ==
    IF ensureSameOrigin(request) # None
    THEN Respond(403, <<"ensureSameOrigin">>)
    ELSE IF ~request.body.json
    THEN [Respond(500, <<"ensureSameOrigin">>) EXCEPT !.error = Some("Failed to sign in.")]
    ELSE IF ~loginPayloadSchema(request.body)
    THEN [Respond(400, <<"ensureSameOrigin">>) EXCEPT !.error = Some("Invalid credentials.")]
    ELSE
    LET email       == normalizeEmail(request.body.email[1])
        throttleKey == ThrottleKey(request, email)
        throttle    == getLoginThrottleState(loginBuckets, throttleKey, now)
        user        == findUserByEmail(users, email)
    IN
    IF ~throttle.allowed
    THEN [Respond(429, <<"ensureSameOrigin", "getLoginThrottleState">>) EXCEPT
            !.error = Some("Too many login attempts. Try again later."),
            !.retryAfter = Some(throttle.retryAfterSeconds),
            !.loginBuckets = throttle.buckets]
    ELSE IF user = None \/ ~users[user[1]].is_active
    THEN [Respond(401, <<"ensureSameOrigin", "getLoginThrottleState", "findUserByEmail",
                         "registerLoginFailure", "writeAuditLog">>) EXCEPT
            !.error = Some("Invalid credentials."),
            !.loginBuckets = registerLoginFailure(throttle.buckets, throttleKey, now),
            !.auditLogs = writeAuditLog(auditLogs,
                              AuditEntry(None, "LOGIN_FAILED", "user", None), auditOk)]
    ELSE IF ~verifyPassword(request.body.password[1], users[user[1]].password_hash)
    THEN [Respond(401, <<"ensureSameOrigin", "getLoginThrottleState", "findUserByEmail",
                         "verifyPassword", "registerLoginFailure", "writeAuditLog">>) EXCEPT
            !.error = Some("Invalid credentials."),
            !.loginBuckets = registerLoginFailure(throttle.buckets, throttleKey, now),
            !.auditLogs = writeAuditLog(auditLogs,
                              AuditEntry(user, "LOGIN_FAILED", "user", user), auditOk)]
    ELSE
    LET revoked == IF request.cookie # NoToken
                   THEN revokeSessionByToken(sessions, request.cookie, now)
                   ELSE sessions
    IN [Respond(200, <<"ensureSameOrigin", "getLoginThrottleState", "findUserByEmail",
                       "verifyPassword", "registerLoginSuccess">>
                     \o (IF request.cookie # NoToken THEN <<"revokeSessionByToken">> ELSE <<>>)
                     \o <<"createSession", "updateUserLastLogin", "writeAuditLog">>) EXCEPT
            !.loginBuckets = registerLoginSuccess(throttle.buckets, throttleKey),
            !.sessions = createSession(revoked, user[1], now),
            !.users = updateUserLastLogin(users, user[1], now),
            !.setCookie = Some(generateSessionToken(revoked)),
            !.auditLogs = writeAuditLog(auditLogs,
                              AuditEntry(user, "LOGIN_SUCCESS", "user", user), auditOk)]

POST_logout_keepSession(request, auditOk, storeOk) ==
    IF ensureSameOrigin(request) # None
    THEN Respond(403, <<"ensureSameOrigin">>)
    ELSE IF ~storeOk /\ request.cookie # NoToken
    THEN [Respond(500, <<"ensureSameOrigin", "getAuthContextFromRequest",
                         "clearSessionCookies">>) EXCEPT !.setCookie = Some(NoToken)]
    ELSE [Respond(200, <<"ensureSameOrigin", "getAuthContextFromRequest",
                         "clearSessionCookies", "writeAuditLog">>) EXCEPT
            !.setCookie = Some(NoToken)]

\* POST /api/auth/logout; storeOk is FALSE when the statements sent to the
\* store raise: the handler catches, answers 500 and clears the cookies
\* (without a cookie it sends no statement but the audit insert)
POST_logout(request, auditOk, storeOk) ==
    IF ensureSameOrigin(request) # None
    THEN Respond(403, <<"ensureSameOrigin">>)
    ELSE IF ~storeOk /\ request.cookie # NoToken
    THEN [Respond(500, <<"ensureSameOrigin", "getAuthContextFromRequest",
                         "clearSessionCookies">>) EXCEPT !.setCookie = Some(NoToken)]
    ELSE
    LET auth == getAuthContextFromRequest(request, sessions, users, userRoles, roles,
                                          rolePermissions, now)
    IN [Respond(200, <<"ensureSameOrigin", "getAuthContextFromRequest">>
                     \o (IF request.cookie # NoToken THEN <<"revokeSessionByToken">> ELSE <<>>)
                     \o <<"clearSessionCookies", "writeAuditLog">>) EXCEPT
            !.sessions = IF request.cookie # NoToken
                         THEN revokeSessionByToken(sessions, request.cookie, now)
                         ELSE sessions,
            !.setCookie = Some(NoToken),
            !.auditLogs = writeAuditLog(auditLogs,
                              AuditEntry(IF auth = None THEN None ELSE Some(auth[1].user.id),
                                         "LOGOUT", "session",
                                         IF auth = None THEN None ELSE Some(auth[1].sessionId)),
                              auditOk /\ storeOk)]

GET_me_noRotation(request) ==
    LET guard == requireAuth(request, sessions, users, userRoles, roles, rolePermissions, now) IN
    IF guard.context = None
    THEN Respond(401, <<"requireAuth">>)
    ELSE Respond(200, <<"requireAuth">>)

\* GET /api/auth/me
GET_me(request) ==
    LET guard == requireAuth(request, sessions, users, userRoles, roles, rolePermissions, now) IN
    IF guard.context = None
    THEN [Respond(guard.error[1].status, <<"requireAuth">>) EXCEPT
            !.error = Some(guard.error[1].error)]
    ELSE
    LET rotated == rotateSession(sessions, guard.context[1], now) IN
    [Respond(200, <<"requireAuth">> \o rotated.calls \o <<"attachSessionCookies">>) EXCEPT
        !.sessions = rotated.sessions,
        !.setCookie = Some(rotated.rawToken)]

\* payload.isActive === false || passwordHash
RevokesSessions_deactivationOnly(payload, passwordHash) ==
    payload.isActive = Some(FALSE)

RevokesSessions(payload, passwordHash) ==
    payload.isActive = Some(FALSE) \/ passwordHash # None

\* PATCH /api/admin/users/:id
PATCH_user(request, auditOk) ==
    IF ensureSameOrigin(request) # None
    THEN Respond(403, <<"ensureSameOrigin">>)
    ELSE
    LET guard == requireAuth(request, sessions, users, userRoles, roles, rolePermissions, now) IN
    IF guard.context = None
    THEN Respond(401, <<"ensureSameOrigin", "requireAuth">>)
    ELSE IF requirePermission(guard.context[1], {"admin:users:manage"}) # None
    THEN Respond(403, <<"ensureSameOrigin", "requireAuth", "requirePermission">>)
    ELSE IF ~request.body.json
    THEN Respond(500, <<"ensureSameOrigin", "requireAuth", "requirePermission">>)
    ELSE IF ~updateUserPayloadSchema(request.body)
    THEN Respond(400, <<"ensureSameOrigin", "requireAuth", "requirePermission">>)
    ELSE IF request.body.password # None /\ ~validateStrongPassword(request.body.password[1])
    THEN Respond(400, <<"ensureSameOrigin", "requireAuth", "requirePermission">>)
    ELSE
    LET passwordHash == IF request.body.password # None
                        THEN Some(hashPassword(request.body.password[1]))
                        ELSE None
        revoke == RevokesSessions(request.body, passwordHash)
    IN [Respond(200, <<"ensureSameOrigin", "requireAuth", "requirePermission", "updateUser">>
                     \o (IF revoke THEN <<"revokeSessionsForUser">> ELSE <<>>)
                     \o <<"writeAuditLog">>) EXCEPT
            !.users = updateUser(users, request.id,
                                 [fullName |-> request.body.fullName,
                                  isActive |-> request.body.isActive,
                                  passwordHash |-> passwordHash], now),
            !.sessions = IF revoke THEN revokeSessionsForUser(sessions, request.id, now)
                         ELSE sessions,
            !.auditLogs = writeAuditLog(auditLogs,
                              AuditEntry(Some(guard.context[1].user.id), "USER_UPDATED",
                                         "user", Some(request.id)), auditOk)]

\* the prologue the administrative routes share: the origin check of the
\* mutating ones, then requireAuth, then requirePermission for the route's key
AdminGuard_authOnly(request, permission, mutating) ==
    IF mutating /\ ensureSameOrigin(request) # None
    THEN [context |-> None, calls |-> <<"ensureSameOrigin">>, status |-> 403]
    ELSE
    LET guard == requireAuth(request, sessions, users, userRoles, roles, rolePermissions, now)
        pre   == IF mutating THEN <<"ensureSameOrigin">> ELSE <<>>
    IN IF guard.context = None
       THEN [context |-> None, calls |-> pre \o <<"requireAuth">>, status |-> 401]
       ELSE [context |-> guard.context,
             calls |-> pre \o <<"requireAuth", "requirePermission">>, status |-> 0]

AdminGuard(request, permission, mutating) ==
    IF mutating /\ ensureSameOrigin(request) # None
    THEN [context |-> None, calls |-> <<"ensureSameOrigin">>, status |-> 403]
    ELSE
    LET guard == requireAuth(request, sessions, users, userRoles, roles, rolePermissions, now)
        pre   == IF mutating THEN <<"ensureSameOrigin">> ELSE <<>>
    IN IF guard.context = None
       THEN [context |-> None, calls |-> pre \o <<"requireAuth">>, status |-> 401]
       ELSE IF requirePermission(guard.context[1], {permission}) # None
       THEN [context |-> None,
             calls |-> pre \o <<"requireAuth", "requirePermission">>, status |-> 403]
       ELSE [context |-> guard.context,
             calls |-> pre \o <<"requireAuth", "requirePermission">>, status |-> 0]

\* GET /api/admin/users, /roles, /permissions, /audit-logs
GET_admin(request, permission, list) ==
    LET g == AdminGuard(request, permission, FALSE) IN
    IF g.context = None THEN Respond(g.status, g.calls)
    ELSE Respond(200, g.calls \o <<list>>)

GET_users(request) == GET_admin(request, "admin:users:read", "listUsersWithRoles")

GET_roles(request) == GET_admin(request, "admin:roles:read", "listRolesWithPermissions")

GET_permissions(request) == GET_admin(request, "admin:permissions:read", "listPermissions")

GET_auditLogs(request) == GET_admin(request, "admin:audit:read", "listAuditLogs")

POST_users_auditRethrown(request, auditOk) ==
    LET g == AdminGuard(request, "admin:users:manage", TRUE) IN
    IF g.context = None THEN Respond(g.status, g.calls)
    ELSE IF ~request.body.json THEN Respond(500, g.calls)
    ELSE IF ~createUserPayloadSchema(request.body) THEN Respond(400, g.calls)
    ELSE IF ~validateStrongPassword(request.body.password[1]) THEN Respond(400, g.calls)
    ELSE
    LET created == createUser(users,
                       [email |-> normalizeEmail(request.body.email[1]),
                        fullName |-> trim(request.body.fullName[1]),
                        passwordHash |-> hashPassword(request.body.password[1]),
                        isActive |-> IF request.body.isActive = None THEN TRUE
                                     ELSE request.body.isActive[1]])
    IN IF ~created.ok
       THEN [Respond(IF created.code = "23505" THEN 409 ELSE 500,
                     g.calls \o <<"createUser">>) EXCEPT
               !.error = Some(IF created.code = "23505" THEN "Email already exists."
                              ELSE "Failed to create user.")]
       ELSE [Respond(IF auditOk THEN 201 ELSE 500,
                     g.calls \o <<"createUser", "writeAuditLog">>) EXCEPT
               !.users = created.users,
               !.auditLogs = writeAuditLog(auditLogs,
                                 AuditEntry(Some(g.context[1].user.id), "USER_CREATED",
                                            "user", created.id), auditOk)]

\* POST /api/admin/users
POST_users(request, auditOk) ==
    LET g == AdminGuard(request, "admin:users:manage", TRUE) IN
    IF g.context = None THEN Respond(g.status, g.calls)
    ELSE IF ~request.body.json THEN Respond(500, g.calls)
    ELSE IF ~createUserPayloadSchema(request.body) THEN Respond(400, g.calls)
    ELSE IF ~validateStrongPassword(request.body.password[1]) THEN Respond(400, g.calls)
    ELSE
    LET created == createUser(users,
                       [email |-> normalizeEmail(request.body.email[1]),
                        fullName |-> trim(request.body.fullName[1]),
                        passwordHash |-> hashPassword(request.body.password[1]),
                        isActive |-> IF request.body.isActive = None THEN TRUE
                                     ELSE request.body.isActive[1]])
    IN IF ~created.ok
       THEN [Respond(IF created.code = "23505" THEN 409 ELSE 500,
                     g.calls \o <<"createUser">>) EXCEPT
               !.error = Some(IF created.code = "23505" THEN "Email already exists."
                              ELSE "Failed to create user.")]
       ELSE [Respond(201, g.calls \o <<"createUser", "writeAuditLog">>) EXCEPT
               !.users = created.users,
               !.auditLogs = writeAuditLog(auditLogs,
                                 AuditEntry(Some(g.context[1].user.id), "USER_CREATED",
                                            "user", created.id), auditOk)]

\* POST /api/admin/roles
POST_roles(request, auditOk) ==
    LET g == AdminGuard(request, "admin:roles:manage", TRUE) IN
    IF g.context = None THEN Respond(g.status, g.calls)
    ELSE IF ~request.body.json THEN Respond(500, g.calls)
    ELSE IF ~createRolePayloadSchema(request.body) THEN Respond(400, g.calls)
    ELSE
    LET created == createRole(roles,
                       [name |-> toUpperCase(trim(request.body.name[1])),
                        description |-> IF request.body.description = None THEN None
                                        ELSE Some(trim(request.body.description[1]))])
    IN IF ~created.ok
       THEN Respond(IF created.code = "23505" THEN 409 ELSE 500, g.calls \o <<"createRole">>)
       ELSE [Respond(201, g.calls \o <<"createRole", "writeAuditLog">>) EXCEPT
               !.roles = created.roles,
               !.auditLogs = writeAuditLog(auditLogs,
                                 AuditEntry(Some(g.context[1].user.id), "ROLE_CREATED",
                                            "role", created.id), auditOk)]

\* PATCH /api/admin/roles/:id
PATCH_role(request, auditOk) ==
    LET g == AdminGuard(request, "admin:roles:manage", TRUE) IN
    IF g.context = None THEN Respond(g.status, g.calls)
    ELSE IF ~request.body.json THEN Respond(500, g.calls)
    ELSE IF ~updateRolePayloadSchema(request.body) THEN Respond(400, g.calls)
    ELSE
    LET updated == updateRole(roles, request.id,
                       [name |-> IF request.body.name = None THEN None
                                 ELSE Some(toUpperCase(trim(request.body.name[1]))),
                        description |-> IF request.body.description = None THEN None
                                        ELSE Some(trim(request.body.description[1]))])
    IN IF ~updated.ok
       THEN Respond(IF updated.code = "23505" THEN 409 ELSE 500, g.calls \o <<"updateRole">>)
       ELSE [Respond(200, g.calls \o <<"updateRole", "writeAuditLog">>) EXCEPT
               !.roles = updated.roles,
               !.auditLogs = writeAuditLog(auditLogs,
                                 AuditEntry(Some(g.context[1].user.id), "ROLE_UPDATED",
                                            "role", Some(request.id)), auditOk)]

\* POST /api/admin/role-assign
POST_roleAssign(request, auditOk) ==
    LET g == AdminGuard(request, "admin:users:manage", TRUE) IN
    IF g.context = None THEN Respond(g.status, g.calls)
    ELSE IF ~request.body.json THEN Respond(500, g.calls)
    ELSE IF ~assignRolePayloadSchema(request.body) THEN Respond(400, g.calls)
    ELSE
    LET assigned == assignRoleToUser(userRoles, users, roles,
                        [userId |-> request.body.user_id[1],
                         roleId |-> request.body.role_id[1],
                         assignedBy |-> Some(g.context[1].user.id)], now)
    IN IF ~assigned.ok
       THEN Respond(500, g.calls \o <<"assignRoleToUser">>)
       ELSE [Respond(200, g.calls \o <<"assignRoleToUser", "writeAuditLog">>) EXCEPT
               !.userRoles = assigned.userRoles,
               !.auditLogs = writeAuditLog(auditLogs,
                                 AuditEntry(Some(g.context[1].user.id), "ROLE_ASSIGNED",
                                            "user_role", request.body.user_id), auditOk)]

\* POST /api/admin/role-permissions
POST_rolePermissions(request, auditOk) ==
    LET g == AdminGuard(request, "admin:roles:manage", TRUE) IN
    IF g.context = None THEN Respond(g.status, g.calls)
    ELSE IF ~request.body.json THEN Respond(500, g.calls)
    ELSE IF ~rolePermissionPayloadSchema(request.body) THEN Respond(400, g.calls)
    ELSE
    LET replaced == setRolePermissions(rolePermissions, roles, request.body.role_id[1],
                                       request.body.permission_ids[1])
    IN IF ~replaced.ok
       THEN [Respond(500, g.calls \o <<"setRolePermissions">>) EXCEPT
               !.rolePermissions = replaced.rolePermissions]
       ELSE [Respond(200, g.calls \o <<"setRolePermissions", "writeAuditLog">>) EXCEPT
               !.rolePermissions = replaced.rolePermissions,
               !.auditLogs = writeAuditLog(auditLogs,
                                 AuditEntry(Some(g.context[1].user.id),
                                            "ROLE_PERMISSIONS_UPDATED", "role",
                                            request.body.role_id), auditOk)]

(***************************************************************************)
(* The scenario library: /api/scenarios as it stands without the guard     *)
(* layer.  A row of app_scenarios is <<[name, config]>>, <<>> once deleted.*)
(***************************************************************************)
WeightNames == {"momentum", "direction", "volatility", "volumeSpike", "intraday"}

\* config: <<>> or <<[weights, volatilityCap]>>, a weight or the cap <<>> when absent
applyScenarioDefaults(config) ==
    [weights |-> [w \in WeightNames |->
                     IF config # None /\ config[1].weights[w] # None
                     THEN config[1].weights[w][1] ELSE 1],
     thresholds |-> [volatilityCap |->
                     IF config # None THEN config[1].volatilityCap ELSE None]]

ScenarioPayload(body) ==
    /\ body.id = None \/ body.id[1] > 0
    /\ body.name # None
    /\ TextLength(body.name[1]) >= 1
    /\ TextLength(body.name[1]) <= 120
    /\ body.config = None
         \/ /\ \A w \in WeightNames :
                   body.config[1].weights[w] = None
                      \/ (body.config[1].weights[w][1] >= 0 /\ body.config[1].weights[w][1] <= 2)
            /\ body.config[1].volatilityCap = None
                  \/ (body.config[1].volatilityCap[1] >= 1
                      /\ body.config[1].volatilityCap[1] <= 10)

tableExists == scenarios # None

\* GET /api/scenarios
GET_scenarios(request) == Respond(200, <<"tableExists">>)

\* POST /api/scenarios
POST_scenarios(request) ==
    IF ~tableExists THEN Respond(400, <<"tableExists">>)
    ELSE IF ~request.body.json THEN Respond(500, <<"tableExists">>)
    ELSE IF ~ScenarioPayload(request.body) THEN Respond(400, <<"tableExists">>)
    ELSE [Respond(200, <<"tableExists", "INSERT app_scenarios">>) EXCEPT
            !.scenarios = Some(Append(scenarios[1],
                              Some([name |-> request.body.name[1],
                                    config |-> applyScenarioDefaults(request.body.config)])))]

\* PUT /api/scenarios
PUT_scenarios(request) ==
    IF ~tableExists THEN Respond(400, <<"tableExists">>)
    ELSE IF ~request.body.json THEN Respond(500, <<"tableExists">>)
    ELSE IF ~ScenarioPayload(request.body) \/ request.body.id = None
    THEN Respond(400, <<"tableExists">>)
    ELSE [Respond(200, <<"tableExists", "UPDATE app_scenarios">>) EXCEPT
            !.scenarios = Some([i \in DOMAIN scenarios[1] |->
                              IF i = request.body.id[1] /\ scenarios[1][i] # None
                              THEN Some([name |-> request.body.name[1],
                                         config |-> applyScenarioDefaults(request.body.config)])
                              ELSE scenarios[1][i]])]

\* DELETE /api/scenarios
DELETE_scenarios(request) ==
    IF ~tableExists THEN Respond(400, <<"tableExists">>)
    ELSE IF ~request.body.json THEN Respond(500, <<"tableExists">>)
    ELSE IF request.body.id = None THEN Respond(400, <<"tableExists">>)
    ELSE [Respond(200, <<"tableExists", "DELETE app_scenarios">>) EXCEPT
            !.scenarios = Some([i \in DOMAIN scenarios[1] |->
                              IF i = request.body.id[1] THEN None ELSE scenarios[1][i]])]

(***************************************************************************)
(* The state after the migrations, the seed script and one user created by *)
(* the administrator.                                                      *)
(***************************************************************************)
defaultRoles ==
    <<[name |-> "ADMIN", description |-> None], [name |-> "MANAGER", description |-> None],
      [name |-> "ANALYST", description |-> None], [name |-> "VIEWER", description |-> None]>>

defaultRolePermissions ==
    ({1} \X defaultPermissions)
        \cup ({2, 3} \X {"investments:read", "investments:write"})
        \cup {<<4, "investments:read">>}

ClientIps == {"1.2.3.4", "5.6.7.8", "unknown"}

NormalizedEmails == {"admin@example.com", "user@example.com", "ghost@example.com"}

ThrottleKeys == ClientIps \X NormalizedEmails

SeedUsers ==
    <<[email |-> "admin@example.com", password_hash |-> hashPassword("Admin#Pass123"),
       full_name |-> "Platform Admin", is_active |-> TRUE,
       last_login_at |-> NULL],
      [email |-> "user@example.com", password_hash |-> hashPassword("User#Pass1234"),
       full_name |-> "User", is_active |-> TRUE,
       last_login_at |-> NULL]>>

\* the administrator of the seed script, assigned by itself, and the role
\* the administrator gave to the user
SeedUserRoles ==
    {[user_id |-> 1, role_id |-> 1, assigned_by |-> Some(1), assigned_at |-> 0],
     [user_id |-> 2, role_id |-> 4, assigned_by |-> Some(1), assigned_at |-> 0]}

Idle == [handler |-> "none", status |-> 0]

\* a browser that holds no cookie and has no page open; a path is the
\* sequence of its segments: "/" is <<"">>, "/api/symbols" is <<"api", "symbols">>
Closed == [pathname |-> None, next |-> None, shown |-> FALSE,
           cookie |-> NoToken, expires |-> 0]

\* the service calls that may be in progress at the same time
Calls == 1 .. MaxCalls

NoFailures == [n |-> 0, start |-> 0, last |-> 0]

Init ==
    /\ now = 1
    /\ ticks = 0
    /\ users = SeedUsers
    /\ roles = defaultRoles
    /\ userRoles = SeedUserRoles
    /\ rolePermissions = defaultRolePermissions
    /\ sessions = <<>>
    /\ auditLogs = <<>>
    /\ loginBuckets = [key \in ThrottleKeys |-> None]
    /\ scenarios = Some(<<>>)
    /\ last = Idle
    /\ failedLogins = [key \in ThrottleKeys |-> NoFailures]
    /\ guardCall = None
    /\ inflight = [call \in Calls |-> None]
    /\ browser = Closed

(***************************************************************************)
(* Actions: the clock, and one action per route handler.                   *)
(***************************************************************************)
Tick(delta, maxTicks) ==
    /\ ticks < maxTicks
    /\ now' = now + delta
    /\ ticks' = ticks + 1
    /\ last' = Idle
    /\ UNCHANGED <<users, roles, userRoles, rolePermissions, sessions, auditLogs,
                   loginBuckets, scenarios, failedLogins, guardCall, inflight,
                   browser>>

\* the store and the response after a handler has run to completion
\* (the outcome is bound once, so that the handler is evaluated once)
Store(handler, o, maxSessions) ==
        /\ Len(o.sessions) <= maxSessions
        /\ Len(o.auditLogs) <= MaxAudit
        /\ Len(o.users) <= MaxUsers
        /\ Len(o.roles) <= MaxRoles
        /\ (IF o.scenarios = None THEN 0 ELSE Len(o.scenarios[1])) <= MaxScenarios
        /\ users' = o.users
        /\ roles' = o.roles
        /\ userRoles' = o.userRoles
        /\ rolePermissions' = o.rolePermissions
        /\ sessions' = o.sessions
        /\ auditLogs' = o.auditLogs
        /\ loginBuckets' = o.loginBuckets
        /\ scenarios' = o.scenarios
        /\ last' = [handler |-> handler, status |-> o.status]

Handle(handler, outcome, maxSessions) ==
    \E o \in {outcome} :
        /\ Store(handler, o, maxSessions)
        /\ UNCHANGED <<now, ticks, guardCall, inflight, browser>>

Request(method, origin, cookie, forwardedFor, id, body) ==
    [method |-> method, origin |-> origin, cookie |-> cookie,
     forwardedFor |-> forwardedFor, realIp |-> None, id |-> id, body |-> body]

SameOrigin == Some("https://app.example")

\* the cookie values a client may send: none, a forged token, any issued token
CookieValues(sess) == {NoToken, -1} \cup (1 .. Len(sess))

\* the cookie values of the browsers: none, or a token the server issued
IssuedCookies(sess) == {NoToken} \cup (1 .. Len(sess))

LoginBody(email, password) ==
    [json |-> TRUE, email |-> Some(email), password |-> Some(password)]

Passwords == {"Admin#Pass123", "User#Pass1234", "Fresh#Pass999"}

UserPatchBodies ==
    {[json |-> TRUE, fullName |-> None, isActive |-> Some(FALSE), password |-> None],
     [json |-> TRUE, fullName |-> None, isActive |-> Some(TRUE), password |-> None],
     [json |-> TRUE, fullName |-> None, isActive |-> None, password |-> Some("Fresh#Pass999")],
     [json |-> TRUE, fullName |-> Some("Renamed"), isActive |-> None, password |-> None],
     [json |-> TRUE, fullName |-> None, isActive |-> Some(FALSE),
      password |-> Some("Fresh#Pass999")],
     [json |-> TRUE, fullName |-> None, isActive |-> None, password |-> Some("weakpassword")],
     [json |-> TRUE, fullName |-> None, isActive |-> None, password |-> Some("short")],
     [json |-> FALSE]}

\* the updates the administrators of Spec submit
SessionPatchBodies ==
    {[json |-> TRUE, fullName |-> None, isActive |-> Some(FALSE), password |-> None],
     [json |-> TRUE, fullName |-> None, isActive |-> Some(TRUE), password |-> None],
     [json |-> TRUE, fullName |-> None, isActive |-> None, password |-> Some("Fresh#Pass999")]}

\* the failed logins of a client's current window, kept as the data model states
\* it: a failure opens a window or counts in the open one, a success clears
RecordLogin(history, client, calls, t) ==
    IF \E k \in DOMAIN calls : calls[k] = "registerLoginSuccess"
    THEN [history EXCEPT ![client] = NoFailures]
    ELSE IF \E k \in DOMAIN calls : calls[k] = "registerLoginFailure"
    THEN IF history[client].n = 0 \/ t - history[client].start > WINDOW_MS
         THEN [history EXCEPT ![client] = [n |-> 1, start |-> t, last |-> t]]
         ELSE [history EXCEPT ![client] = [n |-> @.n + 1, start |-> @.start, last |-> t]]
    ELSE history

\* client: the <<ip, lower-case e-mail>> pair the request comes from
Login(request, auditOk, maxSessions, client) ==
    \E o \in {POST_login(request, auditOk)} :
        /\ Handle("POST /api/auth/login", o, maxSessions)
        /\ failedLogins' = RecordLogin(failedLogins, client, o.calls, now)

\* the other routes leave the history of failed logins alone
Serve(handler, outcome) ==
    /\ Handle(handler, outcome, MaxSessions)
    /\ UNCHANGED failedLogins

\* the Origin headers the clients send: none, the site's own, another site's,
\* and one that is no URL
Origins == {None, SameOrigin, Some("https://evil.example"), Some("not a url")}

CreateUserBody(email, password, fullName) ==
    [json |-> TRUE, email |-> Some(email), password |-> Some(password),
     fullName |-> Some(fullName), isActive |-> None]

CreateUserBodies ==
    {CreateUserBody("new@example.com", "Fresh#Pass999", " New User "),
     CreateUserBody("USER@example.com", "Fresh#Pass999", "New User"),
     CreateUserBody("new@example.com", "weakpassword", "New User"),
     [json |-> FALSE]}

RoleBody(name, description) == [json |-> TRUE, name |-> name, description |-> description]

CreateRoleBodies ==
    {RoleBody(Some(" auditor "), None), RoleBody(Some("admin"), None),
     RoleBody(Some("x"), None)}

UpdateRoleBodies ==
    {RoleBody(Some("auditor"), None), RoleBody(None, Some("Reviews")),
     RoleBody(Some("admin"), None)}

AssignRoleBodies ==
    {[json |-> TRUE, user_id |-> Some(u), role_id |-> Some(1)] : u \in {2, 9, 0}}

RolePermissionBodies ==
    {[json |-> TRUE, role_id |-> Some(r), permission_ids |-> Some(ids)] :
        r \in {4, 9},
        ids \in {<<>>, <<"admin:users:manage">>, <<"investments:read", "missing:key">>}}

(***************************************************************************)
(* Spec: the session life cycle.  Clients sign in with valid credentials,  *)
(* rotate, sign out; administrators update users; sessions expire.         *)
(***************************************************************************)
SessionLogin ==
    \E user \in {<<"admin@example.com", "admin@example.com">>,
                 <<"USER@example.com", "user@example.com">>},
       password \in Passwords, cookie \in IssuedCookies(sessions), auditOk \in {FALSE} :
        LET request == Request("POST", SameOrigin, cookie, "1.2.3.4", 0,
                               LoginBody(user[1], password))
        IN /\ POST_login(request, auditOk).status = 200
           /\ Login(request, auditOk, MaxSessions, <<"1.2.3.4", user[2]>>)

SessionLogout ==
    \E cookie \in IssuedCookies(sessions), auditOk \in {FALSE} :
        Serve("POST /api/auth/logout",
              POST_logout(Request("POST", SameOrigin, cookie, "1.2.3.4", 0, [json |-> FALSE]),
                          auditOk, TRUE))

SessionMe ==
    \E cookie \in IssuedCookies(sessions) :
        Serve("GET /api/auth/me",
              GET_me(Request("GET", None, cookie, "1.2.3.4", 0, [json |-> FALSE])))

SessionPatchUser ==
    \E cookie \in IssuedCookies(sessions), id \in DOMAIN users, body \in SessionPatchBodies,
       auditOk \in {FALSE} :
        Serve("PATCH /api/admin/users/:id",
              PATCH_user(Request("PATCH", SameOrigin, cookie, "1.2.3.4", id, body), auditOk))

SessionTick == Tick(sessionTtlMs \div 2, MaxTicks)

Next == SessionTick \/ SessionLogin \/ SessionLogout \/ SessionMe \/ SessionPatchUser

Spec == Init /\ [][Next]_vars

(***************************************************************************)
(* SpecResolve: token resolution over every content of the session and     *)
(* user tables that the statements of the handlers can leave behind        *)
(* (updateUser and revokeSessionsForUser are separate statements, so an    *)
(* inactive user may own an unrevoked session).                            *)
(***************************************************************************)
SessionRows(t) ==
    [user_id    : DOMAIN SeedUsers,
     token_hash : {<<>>},
     expires_at : {t, t + sessionTtlMs \div 2},
     revoked_at : {NULL, t - 1}]

\* session tables of at most MaxSessions rows, row i issued with token i
SessionTables(t) ==
    UNION {{[i \in 1..n |-> [rows[i] EXCEPT !.token_hash = hashSessionToken(i)]] :
                rows \in [1..n -> SessionRows(t)]} : n \in 0..MaxSessions}

InitResolve ==
    /\ now = 1 + sessionTtlMs
    /\ ticks = 0
    /\ \E active \in [DOMAIN SeedUsers -> BOOLEAN] :
          users = [i \in DOMAIN SeedUsers |-> [SeedUsers[i] EXCEPT !.is_active = active[i]]]
    /\ roles = defaultRoles
    /\ userRoles = SeedUserRoles
    /\ rolePermissions = defaultRolePermissions
    /\ sessions \in SessionTables(now)
    /\ auditLogs = <<>>
    /\ loginBuckets = [key \in ThrottleKeys |-> None]
    /\ scenarios = Some(<<>>)
    /\ last = Idle
    /\ failedLogins = [key \in ThrottleKeys |-> NoFailures]
    /\ guardCall = None
    /\ inflight = [call \in Calls |-> None]
    /\ browser = Closed

ResolveTick == Tick(sessionTtlMs \div 2, MaxTicks)

ResolveMe ==
    \E cookie \in CookieValues(sessions) :
        Serve("GET /api/auth/me",
              GET_me(Request("GET", None, cookie, "1.2.3.4", 0, [json |-> FALSE])))

NextResolve == ResolveTick \/ ResolveMe

SpecResolve == InitResolve /\ [][NextResolve]_vars

(***************************************************************************)
(* SpecThrottle: logins of a few clients, good and bad passwords, over a   *)
(* clock that advances by half a throttle window.                          *)
(***************************************************************************)
\* <<ip, e-mail as typed, e-mail in lower case>>
ThrottleClients ==
    {<<"1.2.3.4", "USER@example.com", "user@example.com">>,
     <<"5.6.7.8", "USER@example.com", "user@example.com">>}

ThrottlePasswords == {"User#Pass1234", "Wrong#Pass000"}

LoginRequest(client, password) ==
    Request("POST", SameOrigin, NoToken, client[1], 0, LoginBody(client[2], password))

ThrottleLogin ==
    \E client \in ThrottleClients, password \in ThrottlePasswords, auditOk \in {FALSE} :
        Login(LoginRequest(client, password), auditOk, MaxThrottleSessions,
              <<client[1], client[3]>>)

ThrottleTick == Tick(WINDOW_MS \div 2, MaxThrottleTicks)

NextThrottle == ThrottleTick \/ ThrottleLogin

SpecThrottle == Init /\ [][NextThrottle]_vars

(***************************************************************************)
(* SpecGuard: one call of requirePermission, on any context of a bounded   *)
(* set of role names and permission keys (the guard keeps no state).       *)
(***************************************************************************)
GuardRoleNames == {"ADMIN", "admin", "Admin", "VIEWER", "manager"}

GuardPermissionKeys == {"admin:all", "admin:users:manage", "admin:users:read",
                        "investments:write"}

GuardContexts ==
    {[user |-> [id |-> 2, email |-> "user@example.com", isActive |-> TRUE,
                roles |-> r, permissions |-> p],
      sessionId |-> 1, sessionExpiresAt |-> 1 + sessionTtlMs, sessionToken |-> 1] :
        r \in SUBSET GuardRoleNames, p \in SUBSET GuardPermissionKeys}

CheckPermission ==
    \E context \in GuardContexts,
       permissions \in SUBSET (GuardPermissionKeys \ {"admin:all"}) :
        /\ guardCall = None
        /\ guardCall' = Some([context |-> context, permissions |-> permissions,
                              response |-> requirePermission(context, permissions)])
        /\ UNCHANGED <<now, ticks, users, roles, userRoles, rolePermissions, sessions,
                       auditLogs, loginBuckets, scenarios, last, failedLogins, inflight,
                       browser>>

SpecGuard == Init /\ [][CheckPermission]_vars

(***************************************************************************)
(* SpecAdmin: the administrative routes, called by an administrator, by a  *)
(* plain user and by clients without a session.                            *)
(***************************************************************************)
AdminOrigins == {SameOrigin, Some("https://evil.example")}

AdminRequest(method, origin, cookie, id, body) ==
    Request(method, origin, cookie, "1.2.3.4", id, body)

\* a browser signs in when it holds no session yet
AdminLogin ==
    \E user \in {<<"admin@example.com", "Admin#Pass123">>,
                 <<"user@example.com", "User#Pass1234">>} :
        /\ \A i \in DOMAIN sessions : users[sessions[i].user_id].email # user[1]
        /\ Login(Request("POST", SameOrigin, NoToken, "1.2.3.4", 0,
                         LoginBody(user[1], user[2])),
                 FALSE, MaxSessions, <<"1.2.3.4", user[1]>>)

AdminGetUsers ==
    \E cookie \in CookieValues(sessions) :
        Serve("GET /api/admin/users",
              GET_users(AdminRequest("GET", None, cookie, 0, [json |-> FALSE])))

AdminGetRoles ==
    \E cookie \in CookieValues(sessions) :
        Serve("GET /api/admin/roles",
              GET_roles(AdminRequest("GET", None, cookie, 0, [json |-> FALSE])))

AdminGetPermissions ==
    \E cookie \in CookieValues(sessions) :
        Serve("GET /api/admin/permissions",
              GET_permissions(AdminRequest("GET", None, cookie, 0, [json |-> FALSE])))

AdminGetAuditLogs ==
    \E cookie \in CookieValues(sessions) :
        Serve("GET /api/admin/audit-logs",
              GET_auditLogs(AdminRequest("GET", None, cookie, 0, [json |-> FALSE])))

AdminPostUsers ==
    \E origin \in AdminOrigins, cookie \in CookieValues(sessions),
       body \in CreateUserBodies, auditOk \in {FALSE} :
        Serve("POST /api/admin/users",
              POST_users(AdminRequest("POST", origin, cookie, 0, body), auditOk))

AdminPostRoles ==
    \E origin \in AdminOrigins, cookie \in CookieValues(sessions),
       body \in CreateRoleBodies, auditOk \in {FALSE} :
        Serve("POST /api/admin/roles",
              POST_roles(AdminRequest("POST", origin, cookie, 0, body), auditOk))

AdminPatchRole ==
    \E origin \in AdminOrigins, cookie \in CookieValues(sessions),
       body \in UpdateRoleBodies, auditOk \in {FALSE} :
        Serve("PATCH /api/admin/roles/:id",
              PATCH_role(AdminRequest("PATCH", origin, cookie, 4, body), auditOk))

AdminPostRoleAssign ==
    \E origin \in AdminOrigins, cookie \in CookieValues(sessions),
       body \in AssignRoleBodies, auditOk \in {FALSE} :
        Serve("POST /api/admin/role-assign",
              POST_roleAssign(AdminRequest("POST", origin, cookie, 0, body), auditOk))

AdminPostRolePermissions ==
    \E origin \in AdminOrigins, cookie \in CookieValues(sessions),
       body \in RolePermissionBodies, auditOk \in {FALSE} :
        Serve("POST /api/admin/role-permissions",
              POST_rolePermissions(AdminRequest("POST", origin, cookie, 0, body), auditOk))

NextAdmin ==
    \/ AdminLogin
    \/ AdminGetUsers
    \/ AdminGetRoles
    \/ AdminGetPermissions
    \/ AdminGetAuditLogs
    \/ AdminPostUsers
    \/ AdminPostRoles
    \/ AdminPatchRole
    \/ AdminPostRoleAssign
    \/ AdminPostRolePermissions

SpecAdmin == Init /\ [][NextAdmin]_vars

(***************************************************************************)
(* SpecOrigin: the scenario library and the session routes, called with    *)
(* every kind of Origin header, with and without the app_scenarios table.  *)
(***************************************************************************)
ScenarioConfigs ==
    {None,
     Some([weights |-> [w \in WeightNames |-> IF w = "momentum" THEN Some(2) ELSE None],
           volatilityCap |-> None]),
     Some([weights |-> [w \in WeightNames |-> IF w = "momentum" THEN Some(3) ELSE None],
           volatilityCap |-> None])}

ScenarioBodies ==
    {[json |-> TRUE, id |-> id, name |-> Some("Reviews"), config |-> config] :
        id \in {None, Some(1)}, config \in ScenarioConfigs}
        \cup {[json |-> FALSE]}

InitOrigin ==
    /\ now = 1
    /\ ticks = 0
    /\ users = SeedUsers
    /\ roles = defaultRoles
    /\ userRoles = SeedUserRoles
    /\ rolePermissions = defaultRolePermissions
    /\ sessions = <<>>
    /\ auditLogs = <<>>
    /\ loginBuckets = [key \in ThrottleKeys |-> None]
    /\ scenarios \in {None, Some(<<>>)}
    /\ last = Idle
    /\ failedLogins = [key \in ThrottleKeys |-> NoFailures]
    /\ guardCall = None
    /\ inflight = [call \in Calls |-> None]
    /\ browser = Closed

OriginLogin ==
    \E origin \in Origins, cookie \in CookieValues(sessions), auditOk \in BOOLEAN :
        Login(Request("POST", origin, cookie, "1.2.3.4", 0,
                      LoginBody("user@example.com", "User#Pass1234")),
              auditOk, MaxSessions, <<"1.2.3.4", "user@example.com">>)

OriginLogout ==
    \E origin \in Origins, cookie \in CookieValues(sessions), auditOk \in BOOLEAN,
       storeOk \in BOOLEAN :
        Serve("POST /api/auth/logout",
              POST_logout(Request("POST", origin, cookie, "1.2.3.4", 0, [json |-> FALSE]),
                          auditOk, storeOk))

OriginGetScenarios ==
    \E origin \in Origins, cookie \in CookieValues(sessions) :
        Serve("GET /api/scenarios",
              GET_scenarios(Request("GET", origin, cookie, "1.2.3.4", 0, [json |-> FALSE])))

OriginPostScenarios ==
    \E origin \in Origins, cookie \in CookieValues(sessions), body \in ScenarioBodies :
        Serve("POST /api/scenarios",
              POST_scenarios(Request("POST", origin, cookie, "1.2.3.4", 0, body)))

OriginPutScenarios ==
    \E origin \in Origins, cookie \in CookieValues(sessions), body \in ScenarioBodies :
        Serve("PUT /api/scenarios",
              PUT_scenarios(Request("PUT", origin, cookie, "1.2.3.4", 0, body)))

OriginDeleteScenarios ==
    \E origin \in Origins, cookie \in CookieValues(sessions), body \in ScenarioBodies :
        Serve("DELETE /api/scenarios",
              DELETE_scenarios(Request("DELETE", origin, cookie, "1.2.3.4", 0, body)))

NextOrigin ==
    \/ OriginLogin
    \/ OriginLogout
    \/ OriginGetScenarios
    \/ OriginPostScenarios
    \/ OriginPutScenarios
    \/ OriginDeleteScenarios

SpecOrigin == InitOrigin /\ [][NextOrigin]_vars

(***************************************************************************)
(* SpecLogin: browsers that sign in again and again, with the cookie of an *)
(* earlier session, with a forged cookie or with none, and sign out.       *)
(***************************************************************************)
\* <<e-mail as typed, e-mail in lower case, password>>
LoginAccounts ==
    {<<"admin@example.com", "admin@example.com", "Admin#Pass123">>,
     <<"USER@example.com", "user@example.com", "User#Pass1234">>}

LoginSignIn ==
    \E account \in LoginAccounts, cookie \in CookieValues(sessions) :
        Login(Request("POST", SameOrigin, cookie, "1.2.3.4", 0,
                      LoginBody(account[1], account[3])),
              FALSE, MaxLoginSessions, <<"1.2.3.4", account[2]>>)

LoginSignOut ==
    \E cookie \in IssuedCookies(sessions) :
        /\ Handle("POST /api/auth/logout",
                  POST_logout(Request("POST", SameOrigin, cookie, "1.2.3.4", 0,
                                      [json |-> FALSE]), FALSE, TRUE),
                  MaxLoginSessions)
        /\ UNCHANGED failedLogins

LoginTick == Tick(sessionTtlMs \div 2, MaxLoginTicks)

NextLogin == LoginTick \/ LoginSignIn \/ LoginSignOut

SpecLogin == Init /\ [][NextLogin]_vars

(***************************************************************************)
(* SpecReplace: setRolePermissions calls in progress at the same time.     *)
(* Every statement of a call is one step: the DELETE, then one INSERT per  *)
(* submitted permission; the statements of different calls interleave.     *)
(***************************************************************************)
ReplaceLists ==
    {<<>>, <<"investments:read", "investments:write">>, <<"admin:users:read">>,
     <<"investments:read", "missing:key">>}

\* the call is made: nothing is sent to the store yet
ReplaceBegin(call) ==
    /\ inflight[call] = None
    /\ \E permissionIds \in ReplaceLists :
          inflight' = [inflight EXCEPT ![call] =
                          Some([roleId |-> 4, permissionIds |-> permissionIds,
                                done |-> 0, failed |-> FALSE])]
    /\ UNCHANGED <<now, ticks, users, roles, userRoles, rolePermissions, sessions,
                   auditLogs, loginBuckets, scenarios, last, failedLogins, guardCall,
                   browser>>

\* await clientDelete
ReplaceDelete(call) ==
    /\ inflight[call] # None
    /\ inflight[call][1].done = 0
    /\ rolePermissions' =
          setRolePermissions(rolePermissions, roles, inflight[call][1].roleId, <<>>)
              .rolePermissions
    /\ inflight' = [inflight EXCEPT ![call][1].done = 1]
    /\ UNCHANGED <<now, ticks, users, roles, userRoles, sessions,
                   auditLogs, loginBuckets, scenarios, last, failedLogins, guardCall,
                   browser>>

\* one turn of the loop: the INSERT of the next permission; a raising
\* INSERT ends the call
ReplaceInsert(call) ==
    /\ inflight[call] # None
    /\ ~inflight[call][1].failed
    /\ inflight[call][1].done >= 1
    /\ inflight[call][1].done <= Len(inflight[call][1].permissionIds)
    /\ LET current  == inflight[call][1]
           inserted == InsertRolePermissions(rolePermissions, roles, current.roleId,
                                             <<current.permissionIds[current.done]>>)
       IN /\ rolePermissions' = inserted.rolePermissions
          /\ inflight' = [inflight EXCEPT ![call] =
                             Some(IF inserted.ok
                                  THEN [current EXCEPT !.done = @ + 1]
                                  ELSE [current EXCEPT !.failed = TRUE])]
    /\ UNCHANGED <<now, ticks, users, roles, userRoles, sessions,
                   auditLogs, loginBuckets, scenarios, last, failedLogins, guardCall,
                   browser>>

NextReplace ==
    \E call \in Calls : ReplaceBegin(call) \/ ReplaceDelete(call) \/ ReplaceInsert(call)

SpecReplace == Init /\ [][NextReplace]_vars

(***************************************************************************)
(* SpecAssign: the administrator assigns roles, again and again, while the *)
(* clock advances.                                                         *)
(***************************************************************************)
AssignBodies ==
    {[json |-> TRUE, user_id |-> Some(u), role_id |-> Some(r)] :
        u \in {1, 2, 9}, r \in {1, 2, 9}}

AssignSignIn ==
    /\ sessions = <<>>
    /\ Login(Request("POST", SameOrigin, NoToken, "1.2.3.4", 0,
                     LoginBody("admin@example.com", "Admin#Pass123")),
             FALSE, MaxSessions, <<"1.2.3.4", "admin@example.com">>)

AssignRole ==
    \E cookie \in CookieValues(sessions), body \in AssignBodies :
        Serve("POST /api/admin/role-assign",
              POST_roleAssign(AdminRequest("POST", SameOrigin, cookie, 0, body), FALSE))

AssignTick == Tick(1000, MaxAssignTicks)

NextAssign == AssignTick \/ AssignSignIn \/ AssignRole

SpecAssign == Init /\ [][NextAssign]_vars

(***************************************************************************)
(* The middleware (middleware.ts) and the pages' client code.              *)
(***************************************************************************)
Root == <<"">>

LoginPath == <<"login">>

isPublicPath(pathname) == pathname = LoginPath

isPublicApiPath(pathname) ==
    pathname = <<"api", "auth", "login">> \/ pathname = <<"api", "auth", "logout">>

\* pathname.startsWith("/api/")
startsWithApi(pathname) == Len(pathname) >= 2 /\ pathname[1] = "api"

Forward == [kind |-> "next", status |-> 200, pathname |-> None, next |-> None]

Redirect(pathname, next) ==
    [kind |-> "redirect", status |-> 307, pathname |-> Some(pathname), next |-> next]

\* the request is [pathname, search, cookie]; sessionToken is the value of
\* the session cookie, NoToken without one
middleware(request) ==
    LET sessionToken == request.cookie IN
    IF isPublicApiPath(request.pathname) THEN Forward
    ELSE IF isPublicPath(request.pathname)
    THEN IF sessionToken = NoToken THEN Forward ELSE Redirect(Root, None)
    ELSE IF sessionToken # NoToken THEN Forward
    ELSE IF startsWithApi(request.pathname)
    THEN [kind |-> "json", status |-> 401, pathname |-> None, next |-> None]
    ELSE Redirect(LoginPath,
                  Some([pathname |-> request.pathname, search |-> request.search]))

\* GET /api/symbols, as the protected data routes are described: the
\* handler answers 401 unless requireAuth returns a context
GET_symbols(request) ==
    LET guard == requireAuth(request, sessions, users, userRoles, roles, rolePermissions, now) IN
    IF guard.context = None
    THEN [Respond(guard.error[1].status, <<"requireAuth">>) EXCEPT
            !.error = Some(guard.error[1].error)]
    ELSE Respond(200, <<"requireAuth">>)

\* the session cookie the browser sends: the one it holds, until it expires
SentCookie == IF now < browser.expires THEN browser.cookie ELSE NoToken

\* the browser after a response: Set-Cookie with a token stores it with the
\* session's expiry, Set-Cookie with the empty value and maxAge 0 drops it
Received(o) ==
    IF o.setCookie = None THEN browser
    ELSE IF o.setCookie[1] = NoToken
    THEN [browser EXCEPT !.cookie = NoToken, !.expires = 0]
    ELSE [browser EXCEPT !.cookie = o.setCookie[1],
                         !.expires = o.sessions[o.setCookie[1]].expires_at]

\* a request of the browser to a route behind the middleware: the route
\* runs when the middleware lets the request pass
Fetch(pathname, handler, outcome) ==
    LET passed == middleware([pathname |-> pathname, search |-> "", cookie |-> SentCookie]) IN
    \E o \in {IF passed.kind = "next" THEN outcome
              ELSE Respond(passed.status, <<"middleware">>)} :
        /\ Store(handler, o, MaxBrowseSessions)
        /\ UNCHANGED <<now, ticks, guardCall, inflight>>

(***************************************************************************)
(* SpecBrowse: one browser of the user opens pages, follows redirects,     *)
(* loads the dashboard's data, signs in and out, while an administrator    *)
(* resets the user's password and the clock advances.                      *)
(***************************************************************************)
Pages == {Root, <<"admin">>, LoginPath}

BrowsePasswords == {"User#Pass1234", "Fresh#Pass999"}

\* the user enters the address of a page
BrowseOpen ==
    /\ \E pathname \in Pages :
          browser' = [browser EXCEPT !.pathname = Some(pathname), !.next = None,
                                     !.shown = FALSE]
    /\ last' = Idle
    /\ UNCHANGED <<now, ticks, users, roles, userRoles, rolePermissions, sessions,
                   auditLogs, loginBuckets, scenarios, failedLogins, guardCall, inflight>>

\* the page request goes through the middleware: the page is shown, or the
\* browser follows the redirect
BrowseRequest ==
    /\ browser.pathname # None
    /\ ~browser.shown
    /\ LET response == middleware([pathname |-> browser.pathname[1], search |-> "",
                                   cookie |-> SentCookie])
       IN /\ response.kind # "json"
          /\ browser' = IF response.kind = "next"
                        THEN [browser EXCEPT !.shown = TRUE]
                        ELSE [browser EXCEPT !.pathname = response.pathname,
                                             !.next = response.next]
          /\ last' = [handler |-> "middleware", status |-> response.status]
    /\ UNCHANGED <<now, ticks, users, roles, userRoles, rolePermissions, sessions,
                   auditLogs, loginBuckets, scenarios, failedLogins, guardCall, inflight>>

\* DashboardPage.fetchSymbols: a 401 sends the browser to /login?next=...
BrowseFetchSymbols ==
    /\ browser.pathname = Some(Root)
    /\ browser.shown
    /\ \E o \in {GET_symbols(Request("GET", None, SentCookie, "1.2.3.4", 0, [json |-> FALSE]))} :
          /\ Fetch(<<"api", "symbols">>, "GET /api/symbols", o)
          /\ browser' = IF last'.status = 401
                        THEN [browser EXCEPT
                                !.pathname = Some(LoginPath),
                                !.next = Some([pathname |-> Root, search |-> ""]),
                                !.shown = FALSE]
                        ELSE browser
          /\ UNCHANGED failedLogins

\* AuthNav: every page asks GET /api/auth/me, which rotates the session
BrowseMe ==
    /\ browser.pathname # None
    /\ browser.shown
    /\ \E o \in {GET_me(Request("GET", None, SentCookie, "1.2.3.4", 0, [json |-> FALSE]))} :
          /\ Fetch(<<"api", "auth", "me">>, "GET /api/auth/me", o)
          /\ browser' = IF last'.status = 200 THEN Received(o) ELSE browser
          /\ UNCHANGED failedLogins

\* LoginPage.onSubmit: on success router.replace(nextPath || "/")
BrowseSignIn ==
    /\ browser.pathname = Some(LoginPath)
    /\ browser.shown
    /\ \E password \in BrowsePasswords :
        \E o \in {POST_login(Request("POST", SameOrigin, SentCookie, "1.2.3.4", 0,
                                     LoginBody("user@example.com", password)), FALSE)} :
          /\ Fetch(<<"api", "auth", "login">>, "POST /api/auth/login", o)
          /\ failedLogins' = RecordLogin(failedLogins, <<"1.2.3.4", "user@example.com">>,
                                         o.calls, now)
          /\ browser' = IF o.status = 200
                        THEN [Received(o) EXCEPT
                                !.pathname = Some(IF browser.next = None THEN Root
                                                  ELSE browser.next[1].pathname),
                                !.next = None,
                                !.shown = FALSE]
                        ELSE browser

\* AuthNav.onLogout, offered while GET /api/auth/me has answered with a user
BrowseSignOut ==
    /\ browser.pathname \notin {None, Some(LoginPath)}
    /\ browser.shown
    /\ AuthQueryRows(SentCookie, sessions, users, now) # {}
    /\ \E o \in {POST_logout(Request("POST", SameOrigin, SentCookie, "1.2.3.4", 0,
                                     [json |-> FALSE]), FALSE, TRUE)} :
          /\ Fetch(<<"api", "auth", "logout">>, "POST /api/auth/logout", o)
          /\ browser' = [Received(o) EXCEPT !.pathname = Some(LoginPath), !.next = None,
                                            !.shown = FALSE]
          /\ UNCHANGED failedLogins

\* the administrator, on another machine, signs in once
BrowseAdminSignIn ==
    /\ \A i \in DOMAIN sessions : sessions[i].user_id # 1
    /\ \E o \in {POST_login(Request("POST", SameOrigin, NoToken, "5.6.7.8", 0,
                                    LoginBody("admin@example.com", "Admin#Pass123")), FALSE)} :
          /\ Store("POST /api/auth/login", o, MaxBrowseSessions)
          /\ failedLogins' = RecordLogin(failedLogins, <<"5.6.7.8", "admin@example.com">>,
                                         o.calls, now)
    /\ UNCHANGED <<now, ticks, guardCall, inflight, browser>>

\* and resets the password of the user, which revokes the user's sessions
BrowseAdminReset ==
    /\ \E cookie \in DOMAIN sessions :
          /\ sessions[cookie].user_id = 1
          /\ \E o \in {PATCH_user(Request("PATCH", SameOrigin, cookie, "5.6.7.8", 2,
                                  [json |-> TRUE, fullName |-> None, isActive |-> None,
                                   password |-> Some("Fresh#Pass999")]), FALSE)} :
                Store("PATCH /api/admin/users/:id", o, MaxBrowseSessions)
    /\ UNCHANGED <<now, ticks, guardCall, inflight, browser, failedLogins>>

BrowseTick == Tick(sessionTtlMs \div 2, MaxBrowseTicks)

NextBrowse ==
    \/ BrowseTick \/ BrowseOpen \/ BrowseRequest \/ BrowseFetchSymbols \/ BrowseMe
    \/ BrowseSignIn \/ BrowseSignOut \/ BrowseAdminSignIn \/ BrowseAdminReset

SpecBrowse == Init /\ [][NextBrowse]_vars

\* the browser follows a redirect and answers a page request at once, and
\* the dashboard's effect runs fetchSymbols whenever the page is mounted
SpecBrowseFair ==
    SpecBrowse /\ WF_vars(BrowseRequest) /\ WF_vars(BrowseFetchSymbols)

(***************************************************************************)
(* Requests that run at the same time.  A handler is suspended at every    *)
(* await; a call in progress is a record with the await it is at (pc), the *)
(* values it holds in its local variables, and, once it has answered, its  *)
(* status.                                                                 *)
(***************************************************************************)
Free(call) == IF inflight[call] = None THEN TRUE ELSE inflight[call][1].pc = "done"

At(call, op, pc) ==
    /\ inflight[call] # None
    /\ inflight[call][1].op = op
    /\ inflight[call][1].pc = pc

Started(op, pc, status, request) ==
    [op |-> op, pc |-> pc, status |-> status, request |-> request,
     user |-> None, context |-> None, created |-> 0, stale |-> FALSE]

Answered(call, handler, status) ==
    /\ inflight' = [inflight EXCEPT ![call][1].pc = "done", ![call][1].status = status]
    /\ last' = [handler |-> handler, status |-> status]

RaceKey(request) == ThrottleKey(request, normalizeEmail(request.body.email[1]))

\* POST /api/auth/login up to its first await: origin, body, throttle
LoginStart(call, request) ==
    /\ Free(call)
    /\ ensureSameOrigin(request) = None
    /\ loginPayloadSchema(request.body)
    /\ LET throttle == getLoginThrottleState(loginBuckets, RaceKey(request), now) IN
       /\ loginBuckets' = throttle.buckets
       /\ inflight' = [inflight EXCEPT ![call] =
                          Some(IF throttle.allowed
                               THEN Started("login", "findUserByEmail", 0, request)
                               ELSE Started("login", "done", 429, request))]
       /\ last' = IF throttle.allowed THEN last
                  ELSE [handler |-> "POST /api/auth/login", status |-> 429]
    /\ UNCHANGED <<now, ticks, users, roles, userRoles, rolePermissions, sessions,
                   auditLogs, scenarios, failedLogins, guardCall, browser>>

\* registerLoginFailure, writeAuditLog (whose insert fails) and the 401
LoginFailed(call) ==
    /\ loginBuckets' = registerLoginFailure(loginBuckets, RaceKey(inflight[call][1].request), now)
    /\ failedLogins' = RecordLogin(failedLogins, RaceKey(inflight[call][1].request),
                                   <<"registerLoginFailure">>, now)
    /\ auditLogs' = writeAuditLog(auditLogs, AuditEntry(None, "LOGIN_FAILED", "user", None),
                                  FALSE)
    /\ Answered(call, "POST /api/auth/login", 401)

\* await findUserByEmail(email)
LoginFind(call) ==
    /\ At(call, "login", "findUserByEmail")
    /\ LET user == findUserByEmail(users, normalizeEmail(inflight[call][1].request.body.email[1]))
       IN IF user = None \/ ~users[user[1]].is_active
          THEN LoginFailed(call)
          ELSE /\ inflight' = [inflight EXCEPT
                                  ![call][1].pc = "verifyPassword",
                                  ![call][1].user =
                                      Some([id |-> user[1],
                                            password_hash |-> users[user[1]].password_hash])]
               /\ UNCHANGED <<loginBuckets, failedLogins, auditLogs, last>>
    /\ UNCHANGED <<now, ticks, users, roles, userRoles, rolePermissions, sessions,
                   scenarios, guardCall, browser>>

\* await verifyPassword(password, user.password_hash)
LoginVerify(call) ==
    /\ At(call, "login", "verifyPassword")
    /\ IF ~verifyPassword(inflight[call][1].request.body.password[1],
                          inflight[call][1].user[1].password_hash)
       THEN LoginFailed(call)
       ELSE /\ loginBuckets' = registerLoginSuccess(loginBuckets,
                                                    RaceKey(inflight[call][1].request))
            /\ failedLogins' = RecordLogin(failedLogins, RaceKey(inflight[call][1].request),
                                           <<"registerLoginSuccess">>, now)
            /\ inflight' = [inflight EXCEPT ![call][1].pc = "createSession"]
            /\ UNCHANGED <<auditLogs, last>>
    /\ UNCHANGED <<now, ticks, users, roles, userRoles, rolePermissions, sessions,
                   scenarios, guardCall, browser>>

\* await createSession(user.id, request), for a request without a cookie
LoginCreate(call) ==
    /\ At(call, "login", "createSession")
    /\ inflight[call][1].request.cookie = NoToken
    /\ Len(sessions) < MaxRaceSessions
    /\ sessions' = createSession(sessions, inflight[call][1].user[1].id, now)
    /\ inflight' = [inflight EXCEPT ![call][1].pc = "updateUserLastLogin",
                                    ![call][1].created = Len(sessions) + 1]
    /\ UNCHANGED <<now, ticks, users, roles, userRoles, rolePermissions, auditLogs,
                   loginBuckets, scenarios, last, failedLogins, guardCall, browser>>

\* await updateUserLastLogin(user.id), the cookies, writeAuditLog, the 200
LoginFinish(call) ==
    /\ At(call, "login", "updateUserLastLogin")
    /\ users' = updateUserLastLogin(users, inflight[call][1].user[1].id, now)
    /\ auditLogs' = writeAuditLog(auditLogs,
                                  AuditEntry(Some(inflight[call][1].user[1].id),
                                             "LOGIN_SUCCESS", "user",
                                             Some(inflight[call][1].user[1].id)), FALSE)
    /\ Answered(call, "POST /api/auth/login", 200)
    /\ UNCHANGED <<now, ticks, roles, userRoles, rolePermissions, sessions,
                   loginBuckets, scenarios, failedLogins, guardCall, browser>>

\* GET /api/auth/me: await requireAuth(request)
MeAuth(call, request) ==
    /\ Free(call)
    /\ LET guard == requireAuth(request, sessions, users, userRoles, roles,
                                rolePermissions, now)
       IN IF guard.context = None
          THEN /\ inflight' = [inflight EXCEPT ![call] =
                                  Some(Started("me", "done", 401, request))]
               /\ last' = [handler |-> "GET /api/auth/me", status |-> 401]
          ELSE /\ inflight' = [inflight EXCEPT ![call] =
                                  Some([Started("me", "createSession", 0, request) EXCEPT
                                           !.context = guard.context])]
               /\ UNCHANGED last
    /\ UNCHANGED <<now, ticks, users, roles, userRoles, rolePermissions, sessions,
                   auditLogs, loginBuckets, scenarios, failedLogins, guardCall, browser>>

\* rotateSession: await createSession(context.user.id, request); stale
\* records whether the session of the context was revoked by then
MeCreate(call) ==
    /\ At(call, "me", "createSession")
    /\ Len(sessions) < MaxRaceSessions
    /\ sessions' = createSession(sessions, inflight[call][1].context[1].user.id, now)
    /\ inflight' = [inflight EXCEPT
                       ![call][1].pc = "revokeSessionById",
                       ![call][1].created = Len(sessions) + 1,
                       ![call][1].stale =
                           sessions[inflight[call][1].context[1].sessionId].revoked_at # NULL]
    /\ UNCHANGED <<now, ticks, users, roles, userRoles, rolePermissions, auditLogs,
                   loginBuckets, scenarios, last, failedLogins, guardCall, browser>>

\* rotateSession: await revokeSessionById(context.sessionId), then the 200
MeRevoke(call) ==
    /\ At(call, "me", "revokeSessionById")
    /\ sessions' = revokeSessionById(sessions, inflight[call][1].context[1].sessionId, now)
    /\ Answered(call, "GET /api/auth/me", 200)
    /\ UNCHANGED <<now, ticks, users, roles, userRoles, rolePermissions, auditLogs,
                   loginBuckets, scenarios, failedLogins, guardCall, browser>>

(***************************************************************************)
(* SpecRaceLogin: two logins of one client at a time, with the right and   *)
(* with a wrong password.                                                  *)
(***************************************************************************)
RaceLoginStart ==
    \E call \in Calls, password \in {"User#Pass1234", "Wrong#Pass000"} :
        LoginStart(call, Request("POST", SameOrigin, NoToken, "1.2.3.4", 0,
                                 LoginBody("user@example.com", password)))

RaceLoginStep ==
    \E call \in Calls :
        LoginFind(call) \/ LoginVerify(call) \/ LoginCreate(call) \/ LoginFinish(call)

NextRaceLogin == RaceLoginStart \/ RaceLoginStep

SpecRaceLogin == Init /\ [][NextRaceLogin]_vars

(***************************************************************************)
(* SpecRace: rotations of the user's session in steps, while the user      *)
(* signs out and an administrator updates the user.                        *)
(***************************************************************************)
\* the user and the administrator sign in, each once, in one piece
RaceSignIn ==
    \E user \in {<<"admin@example.com", "Admin#Pass123">>,
                 <<"user@example.com", "User#Pass1234">>} :
        /\ \A i \in DOMAIN sessions : users[sessions[i].user_id].email # user[1]
        /\ \A call \in Calls : Free(call)
        /\ \E o \in {POST_login(Request("POST", SameOrigin, NoToken, "1.2.3.4", 0,
                                        LoginBody(user[1], user[2])), FALSE)} :
              /\ Store("POST /api/auth/login", o, MaxRaceSessions)
              /\ failedLogins' = RecordLogin(failedLogins, <<"1.2.3.4", user[1]>>,
                                             o.calls, now)
        /\ UNCHANGED <<now, ticks, guardCall, inflight, browser>>

UserCookies == {i \in DOMAIN sessions : sessions[i].user_id = 2}

RaceMeAuth ==
    \E call \in Calls, cookie \in UserCookies :
        MeAuth(call, Request("GET", None, cookie, "1.2.3.4", 0, [json |-> FALSE]))

RaceMeStep == \E call \in Calls : MeCreate(call) \/ MeRevoke(call)

RaceLogout ==
    /\ \E cookie \in UserCookies :
          \E o \in {POST_logout(Request("POST", SameOrigin, cookie, "1.2.3.4", 0,
                                        [json |-> FALSE]), FALSE, TRUE)} :
              Store("POST /api/auth/logout", o, MaxRaceSessions)
    /\ UNCHANGED <<now, ticks, guardCall, inflight, browser, failedLogins>>

RacePatchUser ==
    /\ \E cookie \in DOMAIN sessions, body \in SessionPatchBodies :
          /\ sessions[cookie].user_id = 1
          /\ \E o \in {PATCH_user(Request("PATCH", SameOrigin, cookie, "5.6.7.8", 2, body),
                                  FALSE)} :
                Store("PATCH /api/admin/users/:id", o, MaxRaceSessions)
    /\ UNCHANGED <<now, ticks, guardCall, inflight, browser, failedLogins>>

NextRace ==
    RaceSignIn \/ RaceMeAuth \/ RaceMeStep \/ RaceLogout \/ RacePatchUser

SpecRace == Init /\ [][NextRace]_vars

(***************************************************************************)
(* Properties of the session life cycle.                                   *)
(***************************************************************************)
CookieRequest(token) == Request("GET", None, token, "1.2.3.4", 0, [json |-> FALSE])

\* what a raw token resolves to over a session table and a user table
Resolve(token, sess, usrs) ==
    getAuthContextFromRequest(CookieRequest(token), sess, usrs, userRoles, roles,
                              rolePermissions, now)

\* the validity rule of the data model, for session row i
SessionValid(i, sess, usrs, t) ==
    /\ sess[i].revoked_at = NULL
    /\ sess[i].expires_at > t
    /\ usrs[sess[i].user_id].is_active

\* C1: a raw token resolves to a context iff the session issued with that token is
\* unrevoked, unexpired and owned by an active user; the context is then that
\* session's and that user's. Unknown, expired, revoked, deactivated: null.
C1_ResolveIffValid ==
    \A token \in CookieValues(sessions) :
        LET context == Resolve(token, sessions, users) IN
        /\ context # None <=> (token \in DOMAIN sessions
                                 /\ SessionValid(token, sessions, users, now))
        /\ context # None =>
              /\ context[1].sessionId = token
              /\ context[1].user.id = sessions[token].user_id
              /\ context[1].sessionToken = token

\* one token resolves; another does not, for the one reason that its user is inactive
C1_Witness ==
    \E a \in DOMAIN sessions, b \in DOMAIN sessions :
        /\ Resolve(a, sessions, users) # None
        /\ Resolve(b, sessions, users) = None
        /\ sessions[b].revoked_at = NULL
        /\ sessions[b].expires_at > now
        /\ ~users[sessions[b].user_id].is_active

PatchRequests ==
    {Request("PATCH", SameOrigin, cookie, "1.2.3.4", id, body) :
        cookie \in CookieValues(sessions), id \in DOMAIN users, body \in UserPatchBodies}

\* C2: a PATCH of a user answered 200 that deactivates the user or carries a new
\* password leaves every session of that user resolving to null, so that
\* requireAuth answers 401 for each of them.
C2_PatchRevokesSessions ==
    \A request \in PatchRequests, auditOk \in BOOLEAN :
        LET o == PATCH_user(request, auditOk) IN
        (/\ o.status = 200
         /\ request.body.isActive = Some(FALSE) \/ request.body.password # None)
        => \A i \in DOMAIN sessions :
              sessions[i].user_id = request.id =>
                 /\ Resolve(i, o.sessions, o.users) = None
                 /\ requireAuth(CookieRequest(i), o.sessions, o.users, o.userRoles, o.roles,
                                o.rolePermissions, now).error
                      = Some([status |-> 401, error |-> "Authentication required."])

\* a password reset by PATCH has just revoked a session that was still usable
C2_Witness ==
    /\ last = [handler |-> "PATCH /api/admin/users/:id", status |-> 200]
    /\ \E i \in DOMAIN sessions :
          /\ sessions[i].revoked_at = now
          /\ sessions[i].expires_at > now
          /\ users[sessions[i].user_id].is_active
          /\ users[sessions[i].user_id].password_hash = hashPassword("Fresh#Pass999")

\* C3: rotateSession leaves the token of the context's session resolving to null and
\* returns a token that resolves to a context of the same user; it creates the new
\* session first and revokes the old one afterwards.
C3_RotateSession ==
    \A token \in CookieValues(sessions) :
        LET context == Resolve(token, sessions, users) IN
        context # None =>
            LET rotated == rotateSession(sessions, context[1], now)
                fresh   == Resolve(rotated.rawToken, rotated.sessions, users)
            IN /\ Resolve(token, rotated.sessions, users) = None
               /\ fresh # None
               /\ fresh[1].user.id = context[1].user.id
               /\ fresh[1].sessionId # context[1].sessionId
               /\ rotated.rawToken # token
               /\ rotated.calls = <<"createSession", "revokeSessionById">>

C3_Witness ==
    /\ last = [handler |-> "GET /api/auth/me", status |-> 200]
    /\ \E i \in DOMAIN sessions :
          /\ i < Len(sessions)
          /\ sessions[i].revoked_at = now
          /\ sessions[i].user_id = sessions[Len(sessions)].user_id
          /\ Resolve(Len(sessions), sessions, users) # None

\* C4: revokeSessionsForUser leaves every session of the user that was valid
\* resolving to null, and leaves the session rows of all other users as they were.
C4_RevokeSessionsForUser ==
    \A userId \in DOMAIN users :
        LET after == revokeSessionsForUser(sessions, userId, now) IN
        /\ DOMAIN after = DOMAIN sessions
        /\ \A i \in DOMAIN sessions :
              /\ (sessions[i].user_id = userId /\ SessionValid(i, sessions, users, now))
                    => Resolve(i, after, users) = None
              /\ sessions[i].user_id # userId => after[i] = sessions[i]

\* an administrator has reset a user's password while holding a session of their own
C4_Witness ==
    /\ last = [handler |-> "PATCH /api/admin/users/:id", status |-> 200]
    /\ \E i \in DOMAIN sessions, j \in DOMAIN sessions :
          /\ sessions[i].user_id # sessions[j].user_id
          /\ sessions[i].revoked_at = now
          /\ Resolve(j, sessions, users) # None

(***************************************************************************)
(* Properties of the permission guard.                                     *)
(***************************************************************************)
AdminSpellings == {"ADMIN", "admin", "Admin"}

Forbidden == Some([status |-> 403, error |-> "Forbidden."])

\* C5: requirePermission answers null exactly when the context's roles hold
\* ADMIN in any letter case, or its permissions hold admin:all or one of the
\* required keys; in every other case it answers 403.
C5_RequirePermission ==
    guardCall # None =>
        LET call    == guardCall[1]
            granted == \/ call.context.user.roles \cap AdminSpellings # {}
                       \/ "admin:all" \in call.context.user.permissions
                       \/ call.context.user.permissions \cap call.permissions # {}
        IN /\ (call.response = None) <=> granted
           /\ ~granted => call.response = Forbidden

\* a lower-case admin role without any permission passes the guard
C5_Witness ==
    /\ guardCall # None
    /\ guardCall[1].context.user.roles = {"admin"}
    /\ guardCall[1].context.user.permissions = {}
    /\ guardCall[1].permissions = {"admin:users:manage"}
    /\ guardCall[1].response = None

(***************************************************************************)
(* Properties of the routes: permission guard and origin check.            *)
(***************************************************************************)
ReadRoutes ==
    {"GET /api/admin/users", "GET /api/admin/roles", "GET /api/admin/permissions",
     "GET /api/admin/audit-logs"}

AdminWriteRoutes ==
    {"POST /api/admin/users", "PATCH /api/admin/users/:id", "POST /api/admin/roles",
     "PATCH /api/admin/roles/:id", "POST /api/admin/role-assign",
     "POST /api/admin/role-permissions"}

AdminRoutes == ReadRoutes \cup AdminWriteRoutes

ScenarioWriteRoutes == {"POST /api/scenarios", "PUT /api/scenarios", "DELETE /api/scenarios"}

WriteRoutes ==
    AdminWriteRoutes \cup ScenarioWriteRoutes
        \cup {"POST /api/auth/login", "POST /api/auth/logout"}

\* the permission each administrative route names
RouteKey(route) ==
    CASE route = "GET /api/admin/users"             -> "admin:users:read"
      [] route = "POST /api/admin/users"            -> "admin:users:manage"
      [] route = "PATCH /api/admin/users/:id"       -> "admin:users:manage"
      [] route = "POST /api/admin/role-assign"      -> "admin:users:manage"
      [] route = "GET /api/admin/roles"             -> "admin:roles:read"
      [] route = "POST /api/admin/roles"            -> "admin:roles:manage"
      [] route = "PATCH /api/admin/roles/:id"       -> "admin:roles:manage"
      [] route = "POST /api/admin/role-permissions" -> "admin:roles:manage"
      [] route = "GET /api/admin/permissions"       -> "admin:permissions:read"
      [] route = "GET /api/admin/audit-logs"        -> "admin:audit:read"

RouteMethod(route) ==
    CASE route \in ReadRoutes -> "GET"
      [] route \in {"PATCH /api/admin/users/:id", "PATCH /api/admin/roles/:id"} -> "PATCH"
      [] route = "PUT /api/scenarios" -> "PUT"
      [] route = "DELETE /api/scenarios" -> "DELETE"
      [] OTHER -> "POST"

RouteBodies(route) ==
    CASE route = "POST /api/admin/users"            -> CreateUserBodies
      [] route = "PATCH /api/admin/users/:id"       -> SessionPatchBodies
      [] route = "POST /api/admin/roles"            -> CreateRoleBodies
      [] route = "PATCH /api/admin/roles/:id"       -> UpdateRoleBodies
      [] route = "POST /api/admin/role-assign"      -> AssignRoleBodies
      [] route = "POST /api/admin/role-permissions" -> RolePermissionBodies
      [] route \in ScenarioWriteRoutes              -> ScenarioBodies
      [] route = "POST /api/auth/login"             ->
             {LoginBody("user@example.com", "User#Pass1234")}
      [] OTHER                                      -> {[json |-> FALSE]}

RouteRequest(route, origin, cookie, body) ==
    Request(RouteMethod(route), origin, cookie, "1.2.3.4",
            CASE route = "PATCH /api/admin/users/:id" -> 2
              [] route = "PATCH /api/admin/roles/:id" -> 4
              [] OTHER -> 0,
            body)

RouteOutcome(route, request, auditOk) ==
    CASE route = "GET /api/admin/users"             -> GET_users(request)
      [] route = "GET /api/admin/roles"             -> GET_roles(request)
      [] route = "GET /api/admin/permissions"       -> GET_permissions(request)
      [] route = "GET /api/admin/audit-logs"        -> GET_auditLogs(request)
      [] route = "POST /api/admin/users"            -> POST_users(request, auditOk)
      [] route = "PATCH /api/admin/users/:id"       -> PATCH_user(request, auditOk)
      [] route = "POST /api/admin/roles"            -> POST_roles(request, auditOk)
      [] route = "PATCH /api/admin/roles/:id"       -> PATCH_role(request, auditOk)
      [] route = "POST /api/admin/role-assign"      -> POST_roleAssign(request, auditOk)
      [] route = "POST /api/admin/role-permissions" -> POST_rolePermissions(request, auditOk)
      [] route = "POST /api/scenarios"              -> POST_scenarios(request)
      [] route = "PUT /api/scenarios"               -> PUT_scenarios(request)
      [] route = "DELETE /api/scenarios"            -> DELETE_scenarios(request)
      [] route = "POST /api/auth/login"             -> POST_login(request, auditOk)
      [] route = "POST /api/auth/logout"            -> POST_logout(request, auditOk, TRUE)

ServiceCalls ==
    {"listUsersWithRoles", "listRolesWithPermissions", "listPermissions", "listAuditLogs",
     "createUser", "updateUser", "revokeSessionsForUser", "createRole", "updateRole",
     "assignRoleToUser", "setRolePermissions", "writeAuditLog"}

\* no user, role, user-role, role-permission, session or audit row differs
RowsUnchanged(o) ==
    /\ o.users = users
    /\ o.roles = roles
    /\ o.userRoles = userRoles
    /\ o.rolePermissions = rolePermissions
    /\ o.sessions = sessions
    /\ o.auditLogs = auditLogs

\* the caller's session resolves and the caller is an administrator or
\* holds the key
Granted(caller, key) ==
    /\ caller # None
    /\ \/ caller[1].user.roles \cap AdminSpellings # {}
       \/ "admin:all" \in caller[1].user.permissions
       \/ key \in caller[1].user.permissions

\* requireAuth and then requirePermission come before the first service call
GuardedCalls(calls) ==
    \A k \in DOMAIN calls :
        calls[k] \in ServiceCalls =>
            \E i \in 1 .. (k - 1), j \in 1 .. (k - 1) :
                i < j /\ calls[i] = "requireAuth" /\ calls[j] = "requirePermission"

PassesOrigin(route, origin) == route \in ReadRoutes \/ origin = SameOrigin

\* C6 as stated: on every administrative route a service method runs only
\* after requireAuth gave a context and requirePermission for the route's
\* key gave null; a caller without a session is answered 401, a caller
\* without the permission 403, and neither changes any row.
C6_EveryUnauthenticated401 ==
    \A route \in AdminRoutes, origin \in Origins, cookie \in CookieValues(sessions) :
        \A body \in RouteBodies(route) :
            LET o      == RouteOutcome(route, RouteRequest(route, origin, cookie, body), TRUE)
                caller == Resolve(cookie, sessions, users)
                key    == RouteKey(route)
            IN /\ (\E k \in DOMAIN o.calls : o.calls[k] \in ServiceCalls)
                      => (Granted(caller, key) /\ GuardedCalls(o.calls))
               /\ caller = None => (o.status = 401 /\ RowsUnchanged(o))
               /\ (caller # None /\ ~Granted(caller, key))
                      => (o.status = 403 /\ RowsUnchanged(o))

\* C6, amended: as above, where the caller without a session is answered
\* 401 when the request passes the origin check of the route; a mutating
\* request that fails the origin check is answered 403 before any
\* authentication, and changes no row either.
C6_AdminGuarded ==
    \A route \in AdminRoutes, origin \in Origins, cookie \in CookieValues(sessions) :
        \A body \in RouteBodies(route) :
            LET o      == RouteOutcome(route, RouteRequest(route, origin, cookie, body), TRUE)
                caller == Resolve(cookie, sessions, users)
                key    == RouteKey(route)
            IN /\ (\E k \in DOMAIN o.calls : o.calls[k] \in ServiceCalls)
                      => (Granted(caller, key) /\ GuardedCalls(o.calls))
               /\ (caller = None /\ PassesOrigin(route, origin))
                      => (o.status = 401 /\ RowsUnchanged(o))
               /\ ~PassesOrigin(route, origin)
                      => (o.status = 403 /\ o.calls = <<"ensureSameOrigin">>
                          /\ RowsUnchanged(o))
               /\ (caller # None /\ ~Granted(caller, key))
                      => (o.status = 403 /\ RowsUnchanged(o))

\* a request without a session has just been answered 401, while a plain
\* user is signed in and the administrator has created a user and a role
C6_Witness ==
    /\ last = [handler |-> "POST /api/admin/role-assign", status |-> 401]
    /\ Len(users) = 3
    /\ Len(roles) = 5
    /\ \E i \in DOMAIN sessions :
          /\ sessions[i].user_id = 2
          /\ Resolve(i, sessions, users) # None
          /\ ~Granted(Resolve(i, sessions, users), "admin:users:manage")

ThrottleState(key) == getLoginThrottleState(loginBuckets, key, now)

\* C8: for every throttle key, fewer than 8 failures within one 10-minute
\* window leave the key allowed; after exactly 8 of them the key is not
\* allowed (for the 10 minutes that follow the eighth); and after
\* registerLoginSuccess the key is allowed at once.
C8_FailureThreshold ==
    \A key \in ThrottleKeys :
        LET history == failedLogins[key] IN
        /\ history.n < 8 => ThrottleState(key).allowed
        /\ (history.n = 8 /\ now - history.last < 10 * 60 * 1000)
               => ~ThrottleState(key).allowed
        /\ getLoginThrottleState(registerLoginSuccess(loginBuckets, key), key, now).allowed

\* the eighth failed login of a window has just been answered
C8_Witness ==
    /\ last = [handler |-> "POST /api/auth/login", status |-> 401]
    /\ \E key \in ThrottleKeys :
          /\ failedLogins[key].n = 8
          /\ failedLogins[key].last = now
          /\ ~ThrottleState(key).allowed

\* C9: once a key has 8 failed logins in its window, every login for the key
\* during the block, with a wrong or with the right password, is answered
\* 429 with Retry-After of at least one second, verifies no password,
\* creates no session and leaves the throttle buckets as they are.
C9_BlockedLogin ==
    \A client \in ThrottleClients, password \in ThrottlePasswords, auditOk \in BOOLEAN :
        LET history == failedLogins[<<client[1], client[3]>>]
            o       == POST_login(LoginRequest(client, password), auditOk)
        IN (history.n >= 8 /\ now - history.last < 10 * 60 * 1000) =>
              /\ o.status = 429
              /\ o.retryAfter # None
              /\ o.retryAfter[1] >= 1
              /\ \A k \in DOMAIN o.calls :
                    o.calls[k] \notin {"verifyPassword", "createSession",
                                       "registerLoginFailure", "registerLoginSuccess"}
              /\ o.setCookie = None
              /\ o.sessions = sessions
              /\ o.users = users
              /\ o.loginBuckets = loginBuckets

\* a login of a blocked key has just been answered 429, and the right
\* password would be answered the same
C9_Witness ==
    /\ last = [handler |-> "POST /api/auth/login", status |-> 429]
    /\ \E client \in ThrottleClients :
          /\ failedLogins[<<client[1], client[3]>>].n = 8
          /\ POST_login(LoginRequest(client, "User#Pass1234"), FALSE).status = 429

\* C10: the throttle state is kept per (ip, e-mail) key: the three throttle
\* operations and the login handler leave the bucket of every other key as
\* it is, and a key without failed logins of its own is allowed whatever
\* the other keys did.
C10_KeysIndependent ==
    /\ \A key \in ThrottleKeys : \A other \in ThrottleKeys \ {key} :
          /\ getLoginThrottleState(loginBuckets, key, now).buckets[other] = loginBuckets[other]
          /\ registerLoginFailure(loginBuckets, key, now)[other] = loginBuckets[other]
          /\ registerLoginSuccess(loginBuckets, key)[other] = loginBuckets[other]
    /\ \A client \in ThrottleClients, password \in ThrottlePasswords :
          LET o == POST_login(LoginRequest(client, password), FALSE) IN
          \A other \in ThrottleKeys \ {<<client[1], client[3]>>} :
              o.loginBuckets[other] = loginBuckets[other]
    /\ \A client \in ThrottleClients :
          failedLogins[<<client[1], client[3]>>].n = 0 =>
              POST_login(LoginRequest(client, "User#Pass1234"), FALSE).status = 200

\* one address is blocked for the account while another address, without
\* failures of its own, has just signed in to the same account
C10_Witness ==
    /\ last = [handler |-> "POST /api/auth/login", status |-> 200]
    /\ \E blocked \in ThrottleKeys, free \in ThrottleKeys :
          /\ blocked[2] = free[2]
          /\ blocked[1] # free[1]
          /\ failedLogins[blocked].n = 8
          /\ ~ThrottleState(blocked).allowed
          /\ failedLogins[free].n = 0
          /\ \E i \in DOMAIN sessions : sessions[i].expires_at = now + sessionTtlMs

(***************************************************************************)
(* Properties of the session routes.                                       *)
(***************************************************************************)
LoginEmails == {"admin@example.com", "USER@example.com", "ghost@example.com"}

LoginPasswords == {"Admin#Pass123", "User#Pass1234", "Wrong#Pass000"}

\* C11: a login answered 200 appends one session, valid and owned by the
\* user who signed in, whose token is the cookie of the response; it
\* revokes the session issued with the token of the request's cookie when
\* that session was not revoked yet, and leaves every other session row,
\* of this user and of the others, as it was.
C11_LoginRotatesOwnCookie ==
    \A email \in LoginEmails, password \in LoginPasswords :
        \A cookie \in CookieValues(sessions), auditOk \in BOOLEAN :
            LET o == POST_login(Request("POST", SameOrigin, cookie, "1.2.3.4", 0,
                                        LoginBody(email, password)), auditOk)
                n == Len(sessions)
            IN o.status = 200 =>
                  /\ Len(o.sessions) = n + 1
                  /\ o.users[o.sessions[n + 1].user_id].email = normalizeEmail(email)
                  /\ SessionValid(n + 1, o.sessions, o.users, now)
                  /\ o.setCookie # None
                  /\ Resolve(o.setCookie[1], o.sessions, o.users) # None
                  /\ Resolve(o.setCookie[1], o.sessions, o.users)[1].sessionId = n + 1
                  /\ \A i \in 1 .. n :
                        o.sessions[i] =
                            IF i = cookie /\ sessions[i].revoked_at = NULL
                            THEN [sessions[i] EXCEPT !.revoked_at = now]
                            ELSE sessions[i]

\* a user who holds two sessions has just signed in again from the browser
\* of one of them: that one is revoked, the other one still resolves
C11_Witness ==
    /\ last = [handler |-> "POST /api/auth/login", status |-> 200]
    /\ Len(sessions) = 3
    /\ \E i \in 1 .. 2, j \in 1 .. 2 :
          /\ i # j
          /\ sessions[i].user_id = sessions[3].user_id
          /\ sessions[j].user_id = sessions[3].user_id
          /\ sessions[i].revoked_at = now
          /\ Resolve(j, sessions, users) # None
          /\ Resolve(3, sessions, users) # None

LogoutRequest(origin, cookie) ==
    Request("POST", origin, cookie, "1.2.3.4", 0, [json |-> FALSE])

\* C13 as stated: POST /auth/logout answers 200, clears the cookies and
\* leaves the session of the request's cookie revoked, whatever the request
\* carries and whatever the state of the session and of the store.
C13_LogoutAlways200 ==
    \A origin \in Origins, cookie \in CookieValues(sessions) :
        \A auditOk \in BOOLEAN, storeOk \in BOOLEAN :
            LET o == POST_logout(LogoutRequest(origin, cookie), auditOk, storeOk) IN
            /\ o.status = 200
            /\ o.setCookie = Some(NoToken)
            /\ Resolve(cookie, o.sessions, o.users) = None

\* C13, amended: a logout that passes the origin check and whose store
\* statements succeed answers 200, clears the cookies and revokes the
\* session of the cookie if it was not revoked, whatever the cookie and the
\* state of that session, touching no other session; when a statement
\* raises it answers 500, still clearing the cookies; a logout that fails
\* the origin check is answered 403, clears no cookie and revokes nothing.
C13_LogoutSameOrigin ==
    \A origin \in Origins, cookie \in CookieValues(sessions) :
        \A auditOk \in BOOLEAN, storeOk \in BOOLEAN :
            LET o == POST_logout(LogoutRequest(origin, cookie), auditOk, storeOk) IN
            IF origin # SameOrigin
            THEN /\ o.status = 403
                 /\ o.setCookie = None
                 /\ o.sessions = sessions
            ELSE IF ~storeOk /\ cookie # NoToken
            THEN /\ o.status = 500
                 /\ o.setCookie = Some(NoToken)
                 /\ o.sessions = sessions
            ELSE /\ o.status = 200
                 /\ o.setCookie = Some(NoToken)
                 /\ Resolve(cookie, o.sessions, o.users) = None
                 /\ DOMAIN o.sessions = DOMAIN sessions
                 /\ \A i \in DOMAIN sessions :
                       o.sessions[i] =
                           IF i = cookie /\ sessions[i].revoked_at = NULL
                           THEN [sessions[i] EXCEPT !.revoked_at = now]
                           ELSE sessions[i]

\* a browser has just signed out of a session that was valid: the session
\* is revoked and the audit log names it
C13_Witness ==
    /\ last = [handler |-> "POST /api/auth/logout", status |-> 200]
    /\ \E i \in DOMAIN sessions, k \in DOMAIN auditLogs :
          /\ sessions[i].revoked_at = now
          /\ sessions[i].expires_at > now
          /\ auditLogs[k].action = "LOGOUT"
          /\ auditLogs[k].entityId = Some(i)

\* what the client sees of a response
Response(o) ==
    [status |-> o.status, error |-> o.error, retryAfter |-> o.retryAfter,
     setCookie |-> o.setCookie]

\* the credentials are bad: no such user, an inactive one, or another password
BadCredentials(email, password) ==
    \A i \in DOMAIN users :
        \/ users[i].email # normalizeEmail(email)
        \/ ~users[i].is_active
        \/ \A account \in LoginAccounts : account[2] = users[i].email => account[3] # password

BadLogin(email, password) ==
    POST_login(Request("POST", SameOrigin, NoToken, "1.2.3.4", 0, LoginBody(email, password)),
               FALSE)

\* C14: requireAuth gives the one response 401 "Authentication required."
\* for every cookie that stands for no valid session (absent, unknown,
\* expired, revoked, of an inactive user), and so does the route that calls
\* it; a login with an unknown e-mail, with the e-mail of an inactive user
\* or with a wrong password is answered with one and the same 401 response.
C14_UniformFailure ==
    /\ \A cookie \in CookieValues(sessions) :
          LET guard == requireAuth(CookieRequest(cookie), sessions, users, userRoles, roles,
                                   rolePermissions, now)
          IN ~(cookie \in DOMAIN sessions /\ SessionValid(cookie, sessions, users, now)) =>
                /\ guard.context = None
                /\ guard.error = Some([status |-> 401, error |-> "Authentication required."])
                /\ Response(GET_me(CookieRequest(cookie)))
                     = Response(GET_me(CookieRequest(NoToken)))
                /\ GET_me(CookieRequest(cookie)).status = 401
    /\ \A email \in LoginEmails, password \in LoginPasswords :
          BadCredentials(email, password) =>
             /\ BadLogin(email, password).status = 401
             /\ \A email2 \in LoginEmails, password2 \in LoginPasswords :
                   BadCredentials(email2, password2) =>
                      Response(BadLogin(email, password)) = Response(BadLogin(email2, password2))

\* a request has just been answered 401 while the table holds a revoked
\* session, an expired one and an unrevoked, unexpired one of an inactive
\* user, and that user's right password is refused like an unknown e-mail
C14_Witness ==
    /\ last = [handler |-> "GET /api/auth/me", status |-> 401]
    /\ users[1].is_active
    /\ ~users[2].is_active
    /\ \E i \in DOMAIN sessions :
          /\ sessions[i].user_id = 2
          /\ sessions[i].revoked_at = NULL
          /\ sessions[i].expires_at > now
    /\ \E i \in DOMAIN sessions :
          /\ sessions[i].user_id = 1
          /\ \/ sessions[i].revoked_at # NULL
             \/ sessions[i].expires_at <= now
    /\ BadLogin("USER@example.com", "User#Pass1234").status = 401
    /\ BadLogin("admin@example.com", "Admin#Pass123").status = 200

(***************************************************************************)
(* Properties of the audit trail and of the administration.                *)
(***************************************************************************)
\* C15: whether the audit insert succeeds or fails, every handler gives the
\* same response and leaves the same rows in every table but audit_logs;
\* when the insert fails audit_logs is as it was, when it succeeds it has
\* at most one entry more.
C15_AuditBestEffort ==
    \A route \in AdminRoutes \cup WriteRoutes, origin \in AdminOrigins :
        \A cookie \in CookieValues(sessions), body \in RouteBodies(route) :
            LET request == RouteRequest(route, origin, cookie, body)
                written == RouteOutcome(route, request, TRUE)
                failed  == RouteOutcome(route, request, FALSE)
            IN /\ [written EXCEPT !.auditLogs = <<>>] = [failed EXCEPT !.auditLogs = <<>>]
               /\ failed.auditLogs = auditLogs
               /\ \/ written.auditLogs = auditLogs
                  \/ /\ Len(written.auditLogs) = Len(auditLogs) + 1
                     /\ SubSeq(written.auditLogs, 1, Len(auditLogs)) = auditLogs

\* the administrator has just created a user, answered 201, although the
\* audit insert of that request failed
C15_Witness ==
    /\ last = [handler |-> "POST /api/admin/users", status |-> 201]
    /\ Len(users) = 3
    /\ users[3].email = "new@example.com"
    /\ auditLogs = <<>>

\* the permission lists an administrator may submit: empty, with a
\* duplicate, with a key that names no permission
PermissionLists ==
    LET keys == {"investments:read", "admin:users:manage", "missing:key"} IN
    {<<>>} \cup {<<a>> : a \in keys} \cup {<<a, b>> : a \in keys, b \in keys}

PermissionsOfRole(rp, roleId) == {x[2] : x \in {y \in rp : y[1] = roleId}}

\* C16: a setRolePermissions call that completes leaves the role with
\* exactly the submitted permissions, as a set, and leaves the permissions
\* of every other role as they were.
C16_FullReplace ==
    \A roleId \in (DOMAIN roles) \cup {9}, permissionIds \in PermissionLists :
        LET replaced == setRolePermissions(rolePermissions, roles, roleId, permissionIds) IN
        replaced.ok =>
            /\ PermissionsOfRole(replaced.rolePermissions, roleId)
                 = {permissionIds[k] : k \in DOMAIN permissionIds}
            /\ \A other \in (DOMAIN roles) \ {roleId} :
                  PermissionsOfRole(replaced.rolePermissions, other)
                     = PermissionsOfRole(rolePermissions, other)
            /\ {x \in replaced.rolePermissions : x[1] # roleId}
                 = {x \in rolePermissions : x[1] # roleId}

\* the permissions of VIEWER have just been replaced: it has the submitted
\* one and no longer the one it had, the other roles have theirs
C16_Witness ==
    /\ last = [handler |-> "POST /api/admin/role-permissions", status |-> 200]
    /\ PermissionsOfRole(rolePermissions, 4) = {"admin:users:manage"}
    /\ PermissionsOfRole(rolePermissions, 1) = defaultPermissions
    /\ PermissionsOfRole(rolePermissions, 2) = {"investments:read", "investments:write"}

\* a call in progress has sent all its statements and none raised
Completed(call) ==
    /\ inflight[call] # None
    /\ ~inflight[call][1].failed
    /\ inflight[call][1].done = Len(inflight[call][1].permissionIds) + 1

Submitted(call) ==
    {inflight[call][1].permissionIds[k] : k \in DOMAIN inflight[call][1].permissionIds}

\* C17: once two setRolePermissions calls for the same role, in progress at
\* the same time, have both completed, the permissions of the role are the
\* set that one of the two calls submitted.
C17_LastWriteWins ==
    \A a \in Calls, b \in Calls :
        (/\ a # b
         /\ Completed(a)
         /\ Completed(b)
         /\ inflight[a][1].roleId = inflight[b][1].roleId)
        => PermissionsOfRole(rolePermissions, inflight[a][1].roleId)
              \in {Submitted(a), Submitted(b)}

\* the e-mail in lower case, for the spellings the administrators type
LowerCase(email) ==
    CASE email = "USER@example.com" -> "user@example.com"
      [] OTHER                      -> email

EmailSpellings == {"new@example.com", "USER@example.com", "user@example.com",
                   "admin@example.com"}

\* C18: a POST /api/admin/users by a caller who may create users, with a
\* valid payload whose e-mail in lower case is that of an existing user, is
\* answered 409 "Email already exists.", adds no user and no audit entry;
\* with a new e-mail it adds the user under the lower-case e-mail; and no
\* two users ever have the same e-mail in lower case.
C18_UniqueEmail ==
    /\ \A email \in EmailSpellings, cookie \in CookieValues(sessions), auditOk \in BOOLEAN :
          LET o == POST_users(AdminRequest("POST", SameOrigin, cookie, 0,
                                  CreateUserBody(email, "Fresh#Pass999", "New User")),
                              auditOk)
              taken == \E i \in DOMAIN users : LowerCase(users[i].email) = LowerCase(email)
          IN Granted(Resolve(cookie, sessions, users), "admin:users:manage") =>
                IF taken
                THEN /\ o.status = 409
                     /\ o.error = Some("Email already exists.")
                     /\ o.users = users
                     /\ o.auditLogs = auditLogs
                ELSE /\ o.status = 201
                     /\ Len(o.users) = Len(users) + 1
                     /\ o.users[Len(users) + 1].email = LowerCase(email)
    /\ \A i \in DOMAIN users, j \in DOMAIN users :
          i # j => LowerCase(users[i].email) # LowerCase(users[j].email)

\* after the administrator created a user, a request to create a user
\* with an e-mail in use has just been answered 409
C18_Witness ==
    /\ last = [handler |-> "POST /api/admin/users", status |-> 409]
    /\ Len(users) = 3
    /\ users[3].email = "new@example.com"

\* the bodies a client may post to the login route: no JSON at all, a field
\* missing, no e-mail address, a password too short, and well-formed ones
LoginBodies ==
    {[json |-> FALSE],
     [json |-> TRUE, email |-> None, password |-> Some("User#Pass1234")],
     [json |-> TRUE, email |-> Some("USER@example.com"), password |-> None]}
        \cup {LoginBody(email, password) :
                 email \in {"USER@example.com", "ghost@example.com", "not-an-email"},
                 password \in {"User#Pass1234", "Wrong#Pass000", "short"}}

\* a well-formed {email, password} object
WellFormedLogin(body) ==
    /\ body.json
    /\ body.email \in {Some("USER@example.com"), Some("ghost@example.com")}
    /\ body.password \in {Some("User#Pass1234"), Some("Wrong#Pass000")}

\* the key of the request has eight failed logins and its block has not run out
Throttled(ip, body) ==
    LET history == failedLogins[<<ip, LowerCase(body.email[1])>>] IN
    history.n >= 8 /\ now - history.last < 10 * 60 * 1000

\* the rule of the login route over a set of bodies
LoginStatusRule(bodies) ==
    \A body \in bodies, ip \in {"1.2.3.4", "5.6.7.8"}, cookie \in CookieValues(sessions) :
        LET o == POST_login(Request("POST", SameOrigin, cookie, ip, 0, body), FALSE) IN
        IF ~WellFormedLogin(body)
        THEN o.status = 400 /\ o.setCookie = None
        ELSE IF Throttled(ip, body)
        THEN o.status = 429 /\ o.retryAfter # None /\ o.setCookie = None
        ELSE IF BadCredentials(body.email[1], body.password[1])
        THEN o.status = 401 /\ o.setCookie = None
        ELSE /\ o.status = 200
             /\ o.setCookie # None
             /\ Resolve(o.setCookie[1], o.sessions, o.users) # None

\* C19: a same-origin login is answered 400 when the body is not a
\* well-formed {email, password} object; else 429 with Retry-After when the
\* key is throttled; else 401 on bad credentials; else 200 with the cookie
\* of a new session.
C19_LoginStatuses == LoginStatusRule(LoginBodies)

\* C20: assignRoleToUser for a pair that is assigned already succeeds and
\* leaves user_roles as it is, the record of the pair keeping its
\* assigned_by and assigned_at; assigning a pair twice, by whomever and
\* whenever, gives the table that assigning it once gave; and the route
\* answers 200 for a pair assigned already, changing no user, role,
\* permission or session row.
C20_AssignIdempotent ==
    \A userId \in (DOMAIN users) \cup {9}, roleId \in (DOMAIN roles) \cup {9} :
        \A assignedBy \in {None, Some(1), Some(2)} :
            LET input == [userId |-> userId, roleId |-> roleId, assignedBy |-> assignedBy]
                once  == assignRoleToUser(userRoles, users, roles, input, now)
                assigned == \E a \in userRoles : a.user_id = userId /\ a.role_id = roleId
            IN /\ assigned => (once.ok /\ once.userRoles = userRoles)
               /\ once.ok =>
                     \A again \in {None, Some(1), Some(2)} :
                        LET twice == assignRoleToUser(once.userRoles, users, roles,
                                                      [input EXCEPT !.assignedBy = again],
                                                      now + 1000)
                        IN twice.ok /\ twice.userRoles = once.userRoles
               /\ \A cookie \in CookieValues(sessions) :
                     LET o == POST_roleAssign(
                                  AdminRequest("POST", SameOrigin, cookie, 0,
                                      [json |-> TRUE, user_id |-> Some(userId),
                                       role_id |-> Some(roleId)]), FALSE)
                     IN (assigned /\ Granted(Resolve(cookie, sessions, users),
                                             "admin:users:manage"))
                           => /\ o.status = 200
                              /\ RowsUnchanged(o)

\* the administrator has just assigned a pair again that was assigned at
\* an earlier time: the request is answered 200 and no record is of now
C20_Witness ==
    /\ last = [handler |-> "POST /api/admin/role-assign", status |-> 200]
    /\ \A a \in userRoles : a.assigned_at < now
    /\ \E a \in userRoles :
          a.user_id = 2 /\ a.role_id = 1 /\ a.assigned_by = Some(1) /\ a.assigned_at > 0

(***************************************************************************)
(* Properties of the session rows, of the middleware and of concurrent     *)
(* requests.                                                               *)
(***************************************************************************)
\* a revocation of the session, of the token or of the user changes nothing
\* where no unrevoked row matches
RevocationIsNoOp(sess, usrs, t) ==
    /\ \A token \in CookieValues(sess) \cup {Len(sess) + 1} :
          (~ \E i \in DOMAIN sess : /\ sess[i].token_hash = hashSessionToken(token)
                                    /\ sess[i].revoked_at = NULL)
             => revokeSessionByToken(sess, token, t) = sess
    /\ \A id \in 0 .. Len(sess) + 1 :
          (id \notin DOMAIN sess \/ sess[id].revoked_at # NULL)
             => revokeSessionById(sess, id, t) = sess
    /\ \A userId \in (DOMAIN usrs) \cup {9} :
          (~ \E i \in DOMAIN sess : sess[i].user_id = userId /\ sess[i].revoked_at = NULL)
             => revokeSessionsForUser(sess, userId, t) = sess

\* C21: a step of the session life cycle (login, rotation, logout, update
\* of a user by an administrator, clock) keeps every session row, with its
\* user, token hash and expires_at; a revoked_at that is set stays as it
\* is, and one that is set by the step is the time of the step; and in the
\* state the step leads to, revoking a revoked session, an unknown session
\* or an unknown token changes no row.
C21_SessionRowsImmutable ==
    [][/\ Len(sessions') >= Len(sessions)
       /\ \A i \in DOMAIN sessions :
             /\ sessions'[i].user_id = sessions[i].user_id
             /\ sessions'[i].token_hash = sessions[i].token_hash
             /\ sessions'[i].expires_at = sessions[i].expires_at
             /\ sessions[i].revoked_at # NULL
                   => sessions'[i].revoked_at = sessions[i].revoked_at
             /\ sessions'[i].revoked_at \in {sessions[i].revoked_at, now}
       /\ RevocationIsNoOp(sessions', users', now' + 1)]_vars

\* a sign-out has revoked a session now, and a session revoked earlier has
\* kept the time of its revocation
C21_Witness ==
    /\ last = [handler |-> "POST /api/auth/logout", status |-> 200]
    /\ \E i, j \in DOMAIN sessions :
          /\ sessions[i].revoked_at # NULL /\ sessions[j].revoked_at # NULL
          /\ sessions[i].revoked_at < sessions[j].revoked_at
          /\ sessions[j].revoked_at = now

MiddlewarePaths ==
    Pages \cup {<<"scenarios">>, <<"symbol", "2222">>, <<"api">>, <<"api", "symbols">>,
                <<"api", "auth", "me">>, <<"api", "auth", "login">>,
                <<"api", "auth", "logout">>, <<"api", "admin", "users">>}

\* C22: whatever session cookie a request carries, when it resolves to no
\* valid session the middleware redirects a request for any page other than
\* /login to /login with the path and query in the next parameter, and
\* answers 401 to a request for an /api/ path that is not public.
C22_MiddlewareProtects ==
    \A pathname \in MiddlewarePaths, search \in {"", "?range=30"},
       cookie \in CookieValues(sessions) :
        LET response == middleware([pathname |-> pathname, search |-> search,
                                    cookie |-> cookie])
        IN AuthQueryRows(cookie, sessions, users, now) = {}
              => IF startsWithApi(pathname)
                 THEN isPublicApiPath(pathname) \/ response.status = 401
                 ELSE isPublicPath(pathname)
                         \/ response = Redirect(LoginPath, Some([pathname |-> pathname,
                                                                 search |-> search]))

\* the browser holds a session cookie that has not expired in the browser
\* and is the token of no valid session
StaleCookie ==
    /\ SentCookie # NoToken
    /\ AuthQueryRows(SentCookie, sessions, users, now) = {}

LoginShown == browser.pathname = Some(LoginPath) /\ browser.shown

\* C28: a browser that holds the cookie of a session that is revoked or
\* has expired on the server, and that requests or shows the dashboard or
\* requests /login, is eventually shown the /login page by the redirects
\* of the middleware and the client's handling of 401 responses alone,
\* that is, unless a step other than a page request and the dashboard's
\* fetch comes first.
C28_ReachesLogin ==
    (StaleCookie /\ browser.pathname \in {Some(Root), Some(LoginPath)})
        ~> (LoginShown \/ last.handler \notin {"middleware", "GET /api/symbols"})

\* C27: for every key that is blocked now (now < blockedUntil), the buckets
\* after a registerLoginFailure call for the key at this time still make
\* getLoginThrottleState answer allowed = false, and the key's blockedUntil
\* is not earlier than before.
C27_FailureKeepsBlock ==
    \A key \in ThrottleKeys :
        (loginBuckets[key] # None /\ now < loginBuckets[key][1].blockedUntil)
           => LET after == registerLoginFailure(loginBuckets, key, now) IN
              /\ ~getLoginThrottleState(after, key, now).allowed
              /\ after[key][1].blockedUntil >= loginBuckets[key][1].blockedUntil

\* C23: whatever the interleaving of the logins of a key, the failed
\* password verifications of the key's window, with no successful login in
\* between, are at most 8: failedLogins counts them, as registered by the
\* handlers that reached the verification.
C23_GuessesBounded ==
    \A key \in ThrottleKeys : failedLogins[key].n <= MAX_ATTEMPTS

\* a call that has answered 200 to GET /api/auth/me
Rotated(call) ==
    /\ inflight[call] # None
    /\ inflight[call][1].op = "me"
    /\ inflight[call][1].pc = "done"
    /\ inflight[call][1].status = 200

\* C24: when the session a GET /api/auth/me request authenticated with was
\* revoked before the request inserted its new session, the new session
\* resolves to no context once the request has answered.
C24_NoResurrection ==
    \A call \in Calls :
        (Rotated(call) /\ inflight[call][1].stale)
           => AuthQueryRows(inflight[call][1].created, sessions, users, now) = {}

\* C25: of the sessions created by GET /api/auth/me requests that carried
\* the same token and have all answered, at most one is left unrevoked.
C25_NoMultiplication ==
    \A a, b \in Calls :
        (/\ a # b
         /\ Rotated(a) /\ Rotated(b)
         /\ inflight[a][1].request.cookie = inflight[b][1].request.cookie)
           => \/ sessions[inflight[a][1].created].revoked_at # NULL
              \/ sessions[inflight[b][1].created].revoked_at # NULL

\* C30: when the user is deactivated and no request is in progress, the
\* user has no session that is unrevoked and unexpired.
C30_DeactivatedHasNoSession ==
    (~users[2].is_active /\ \A call \in Calls : Free(call))
       => \A i \in DOMAIN sessions :
             sessions[i].user_id = 2
                => (sessions[i].revoked_at # NULL \/ sessions[i].expires_at <= now)

\* C29: whenever POST /api/admin/role-permissions answers 500 to a caller
\* that may manage roles, the role of the request has the permission set it
\* had before the request.
C29_ReplaceAllOrNothing ==
    \A cookie \in CookieValues(sessions), body \in RolePermissionBodies :
        LET o == POST_rolePermissions(AdminRequest("POST", SameOrigin, cookie, 0, body),
                                      FALSE)
        IN o.status = 500
              => PermissionsOfRole(o.rolePermissions, body.role_id[1])
                    = PermissionsOfRole(rolePermissions, body.role_id[1])

\* C26: a request to assign a role or to replace a role's permissions,
\* made with the session of a caller that is not an administrator (neither
\* the ADMIN role nor admin:all), leaves that session's caller not an
\* administrator; by induction no sequence of such requests makes isAdmin
\* true for the caller.
C26_NoSelfEscalation ==
    \A cookie \in CookieValues(sessions) :
        LET caller == Resolve(cookie, sessions, users) IN
        (caller # None /\ ~isAdmin(caller[1]))
           => \A o \in {POST_roleAssign(AdminRequest("POST", SameOrigin, cookie, 0, body),
                                        FALSE) : body \in AssignRoleBodies}
                          \cup {POST_rolePermissions(
                                    AdminRequest("POST", SameOrigin, cookie, 0, body),
                                    FALSE) : body \in RolePermissionBodies} :
                 LET after == getAuthContextFromRequest(
                                  CookieRequest(cookie), o.sessions, o.users, o.userRoles,
                                  o.roles, o.rolePermissions, now)
                 IN after = None \/ ~isAdmin(after[1])

====
